---- MODULE Spec2Model ----
(***************************************************************************)
(* Substance.Document: the document graph, its transactions (the          *)
(* copy-on-write shadow of src/document.js, the simulation copy and the   *)
(* in-place transaction of the other Document versions) and its operation *)
(* listeners.                                                             *)
(*                                                                        *)
(* Spec   : shadow transactions.  impl = "cow" is src/src/document.js      *)
(*          (startTransaction / save), impl = "sim" is the Document of     *)
(*          src/unnamed/part_001 lines 253-556 (startSimulation).          *)
(* SpecTx : the Document of src/unnamed/part_001 lines 64-251              *)
(*          (isTransacting flag, operation listeners).                     *)
(* SpecAnn: the Annotator of src/src/annotator.js (annotate, copy, paste,  *)
(*          co-transformation of annotations with document operations).    *)
(* SpecQuery: the annotation queries over documents holding annotations.   *)
(***************************************************************************)
EXTENDS Integers, Sequences, FiniteSets, TLC

VARIABLES
  impl,               \* which Document implementation the run is about
  nodes,              \* the original graph's node storage: id -> node
  txs,                \* the open shadows / simulations, in the order they were started
  observed,           \* number of operations the original's listeners were notified of
  lastOp,             \* <<op>>: the last operation the original's listeners were notified of
  last,               \* the last call and how it ended
  isTransacting,      \* part_001:87
  transactionChanges, \* part_001:89  <<>> is null, <<S>> a ChangeMap over the ids S
  recoveryPoint,      \* the node storage at the history's last recovery point
  operationListeners, \* part_001:84  the listener array
  priority,           \* listener -> its __priority field
  given,              \* listener -> the priority argument it was registered with
  trace,              \* what onOperationApplied did for the last operation
  observedAtStart,    \* the value of observed when the open transaction was started
  withTransformation, \* annotator.js:53  the Annotator's option
  uuids,              \* number of ids util.uuid() has handed out
  disposed            \* annotator.js:485  Annotator.dispose() has been called

vars == <<impl, nodes, txs, observed, lastOp, last, isTransacting,
          transactionChanges, recoveryPoint, operationListeners, priority,
          given, trace, observedAtStart, withTransformation, uuids, disposed>>

annVars == <<withTransformation, uuids, disposed>>

txVars == <<isTransacting, transactionChanges, recoveryPoint,
            operationListeners, priority, given, trace, observedAtStart>>

-----------------------------------------------------------------------------
(* Bounds *)

MaxOpen == 2
MaxLog == 1
MaxObserved == 2
MaxDelivered == 2

-----------------------------------------------------------------------------
(* Nodes and operations *)

\* the node records handed to create()
NodeInputs ==
  { [id |-> "n1", type |-> "paragraph", content |-> 0],
    [id |-> "n2", type |-> "heading", content |-> 1] }

NoNodes == [i \in {} |-> [type |-> "paragraph", content |-> 0]]

Create(node) ==
  [type |-> "create", path |-> node.id,
   val |-> [type |-> node.type, content |-> node.content]]

Delete(id) == [type |-> "delete", path |-> id]

Set(id, v) == [type |-> "set", path |-> id, newval |-> v]

Compound(ops) == [type |-> "compound", ops |-> ops]

AtomicOps ==
  {Create(n) : n \in NodeInputs} \cup {Delete("n1"), Set("n1", 1)}

\* compound operations a caller hands to apply: one flat, one nested
CompoundOps ==
  { Compound(<<Delete("n1"), Create([id |-> "n1", type |-> "heading", content |-> 1])>>),
    Compound(<<Compound(<<Set("n2", 0)>>), Delete("n2")>>) }

OpInputs == AtomicOps \cup CompoundOps

Without(g, id) == [i \in DOMAIN g \ {id} |-> g[i]]

\* Graph.apply: the operation applied to node storage g; a rejected operation
\* (duplicate id, unknown id) leaves g as it was
RECURSIVE Exec(_, _)
RECURSIVE ExecSeq(_, _)
Exec(g, op) ==
  CASE op.type = "create" ->
         IF op.path \in DOMAIN g THEN [ok |-> FALSE, g |-> g]
         ELSE [ok |-> TRUE, g |-> g @@ (op.path :> op.val)]
    [] op.type = "delete" ->
         IF op.path \notin DOMAIN g THEN [ok |-> FALSE, g |-> g]
         ELSE [ok |-> TRUE, g |-> Without(g, op.path)]
    [] op.type = "set" ->
         IF op.path \notin DOMAIN g THEN [ok |-> FALSE, g |-> g]
         ELSE [ok |-> TRUE, g |-> [g EXCEPT ![op.path].content = op.newval]]
    [] op.type = "compound" ->
         LET r == ExecSeq(g, op.ops)
         IN  IF r.ok THEN r ELSE [ok |-> FALSE, g |-> g]

ExecSeq(g, ops) ==
  IF ops = <<>> THEN [ok |-> TRUE, g |-> g]
  ELSE LET r == Exec(g, Head(ops))
       IN  IF r.ok THEN ExecSeq(r.g, Tail(ops)) ELSE [ok |-> FALSE, g |-> g]

\* the ids an operation writes
RECURSIVE Touched(_)
RECURSIVE TouchedSeq(_)
Touched(op) ==
  IF op.type = "compound" THEN TouchedSeq(op.ops) ELSE {op.path}

TouchedSeq(ops) ==
  IF ops = <<>> THEN {} ELSE Touched(Head(ops)) \cup TouchedSeq(Tail(ops))

-----------------------------------------------------------------------------
(* Serialization *)

\* TestDocument.Seed
Seed ==
  [nodes |-> ("document" :> [type |-> "document", views |-> <<"content">>])
               @@ ("content" :> [type |-> "view", nodes |-> <<>>])]

\* seeds a document is constructed from
SeedInputs ==
  { [nodes |-> Seed.nodes @@ ("n1" :> [type |-> "paragraph", content |-> 0])],
    [nodes |-> ("n1" :> [type |-> "heading", content |-> 1])
                 @@ ("n2" :> [type |-> "paragraph", content |-> 0])] }

\* Graph.init: node storage is a copy of the seed's nodes
Graph_init(seed) == seed.nodes

\* Document.toJSON
toJSON(g) == [id |-> "doc", schema |-> <<"substance-document", "0.5.0">>, nodes |-> g]

\* the given seed dropped in favour of the default one
TestDocument_defaultSeed(options) == Graph_init(Seed)

\* new TestDocument(options); options.seed is <<>> when undefined, else <<data>>
TestDocument(options) ==
  Graph_init(IF options.seed = <<>> THEN Seed ELSE options.seed[1])

\* TestDocument.fromSnapshot / Document.fromSnapshot
fromSnapshot(data) == TestDocument([seed |-> <<data>>])

-----------------------------------------------------------------------------
(* Shadows *)

\* COWGraph: reads consult the shadow's own nodes first and fall back to the
\* original for the ids the shadow has not touched; a simulation is a full copy
ShadowNodes(sh) ==
  IF impl = "sim" THEN sh.nodes
  ELSE [i \in ((DOMAIN nodes \ sh.deleted) \cup DOMAIN sh.nodes) |->
          IF i \in DOMAIN sh.nodes THEN sh.nodes[i] ELSE nodes[i]]

\* COWGraph.apply: the write lands in the shadow only
COWWrite(sh, op) ==
  LET view == Exec(ShadowNodes(sh), op).g
      T == DOMAIN sh.nodes \cup sh.deleted \cup Touched(op)
  IN  [sh EXCEPT !.nodes = [i \in T \cap DOMAIN view |-> view[i]],
                 !.deleted = T \ DOMAIN view]

\* Operator.Helpers.flatten: every compound replaced by its atomic operations
RECURSIVE Helpers_flatten(_)
Helpers_flatten(ops) ==
  IF ops = <<>> THEN <<>>
  ELSE LET h == Head(ops)
       IN  (IF h.type = "compound" THEN Helpers_flatten(h.ops) ELSE <<h>>)
             \o Helpers_flatten(Tail(ops))

\* simulation.save, the loop building _ops
RECURSIVE simulation_flatten(_)
simulation_flatten(ops) ==
  IF ops = <<>> THEN <<>>
  ELSE LET h == Head(ops)
       IN  (IF h.type # "compound" THEN <<h>> ELSE h.ops)
             \o simulation_flatten(Tail(ops))

\* the check for an empty log left out
nothingRecorded_never(ops) == FALSE

\* "if nothing has been changed just return"
nothingRecorded(ops) == Len(ops) = 0

Logged == IF txs = <<>> THEN 0
          ELSE LET RECURSIVE Sum(_)
                   Sum(i) == IF i = 0 THEN 0 ELSE Len(txs[i].ops) + Sum(i - 1)
               IN  Sum(Len(txs))

\* inTx: a transaction was open on the document the call was made on (or the
\* document is itself a shadow)
Call(c, inTx, r) == [call |-> c, inTx |-> inTx, result |-> r]

-----------------------------------------------------------------------------
(* Spec: shadow transactions *)

Init ==
  /\ impl \in {"cow", "sim"}
  /\ nodes \in {TestDocument([seed |-> <<>>])} \cup {fromSnapshot(s) : s \in SeedInputs}
  /\ txs = <<>>
  /\ observed = 0
  /\ lastOp = <<>>
  /\ last = Call("new", FALSE, "ok")
  /\ isTransacting = FALSE
  /\ transactionChanges = <<>>
  /\ recoveryPoint = NoNodes
  /\ operationListeners = <<>>
  /\ priority = [l \in {} |-> 0]
  /\ given = [l \in {} |-> <<>>]
  /\ trace = <<>>
  /\ observedAtStart = 0
  /\ withTransformation = FALSE
  /\ disposed = FALSE
  /\ uuids = 0

\* Document.apply on the original: Graph.apply, then the listeners
apply(op) ==
  /\ txs = <<>>
  /\ observed < MaxObserved
  /\ LET r == Exec(nodes, op)
     IN  IF r.ok
         THEN /\ nodes' = r.g
              /\ observed' = observed + 1
              /\ lastOp' = <<op>>
              /\ last' = Call("apply", FALSE, "applied")
         ELSE /\ last' = Call("apply", FALSE, "throw")
              /\ UNCHANGED <<nodes, observed, lastOp>>
  /\ UNCHANGED <<annVars, impl, txs>>
  /\ UNCHANGED txVars

\* Document.startTransaction (document.js)
startTransaction ==
  /\ impl = "cow"
  /\ Len(txs) < MaxOpen
  /\ txs' = Append(txs, [nodes |-> NoNodes, deleted |-> {}, ops |-> <<>>])
  /\ last' = Call("startTransaction", txs # <<>>, "ok")
  /\ UNCHANGED <<annVars, impl, nodes, observed, lastOp>>
  /\ UNCHANGED txVars

\* Document.startSimulation
startSimulation ==
  /\ impl = "sim"
  /\ Len(txs) < MaxOpen
  /\ txs' = Append(txs, [nodes |-> fromSnapshot(toJSON(nodes)), deleted |-> {},
                         ops |-> <<>>])
  /\ last' = Call("startSimulation", txs # <<>>, "ok")
  /\ UNCHANGED <<annVars, impl, nodes, observed, lastOp>>
  /\ UNCHANGED txVars

\* apply on a shadow of document.js: COWGraph.apply records what it applied
shadow_apply(d, op) ==
  /\ impl = "cow"
  /\ d \in 1..Len(txs)
  /\ Logged < MaxLog
  /\ LET r == Exec(ShadowNodes(txs[d]), op)
     IN  IF r.ok
         THEN /\ txs' = [txs EXCEPT ![d] =
                           [COWWrite(txs[d], op) EXCEPT !.ops = Append(txs[d].ops, op)]]
              /\ last' = Call("apply", TRUE, "applied")
         ELSE /\ last' = Call("apply", TRUE, "throw")
              /\ UNCHANGED txs
  /\ UNCHANGED <<annVars, impl, nodes, observed, lastOp>>
  /\ UNCHANGED txVars

\* simulation.apply: ops.push(op), then the simulation's own apply
simulation_apply(d, op) ==
  /\ impl = "sim"
  /\ d \in 1..Len(txs)
  /\ Logged < MaxLog
  /\ LET r == Exec(txs[d].nodes, op)
     IN  /\ txs' = [txs EXCEPT ![d].ops = Append(@, op), ![d].nodes = r.g]
         /\ last' = Call("apply", TRUE, IF r.ok THEN "applied" ELSE "throw")
  /\ UNCHANGED <<annVars, impl, nodes, observed, lastOp>>
  /\ UNCHANGED txVars

\* original.apply(compound) at the end of save
Replay(d, compound) ==
  LET r == Exec(nodes, compound)
  IN  IF r.ok
      THEN /\ nodes' = r.g
           /\ observed' = observed + 1
           /\ lastOp' = <<compound>>
           /\ last' = [call |-> "save", inTx |-> TRUE, result |-> "applied", d |-> d]
      ELSE /\ last' = [call |-> "save", inTx |-> TRUE, result |-> "throw", d |-> d]
           /\ UNCHANGED <<nodes, observed, lastOp>>

\* Document.save (document.js); d = 0 is the original document itself
save(d) ==
  /\ impl = "cow"
  /\ d \in 0..Len(txs)
  /\ observed < MaxObserved
  /\ IF d = 0
     THEN /\ last' = [call |-> "save", inTx |-> FALSE, result |-> "return", d |-> d]
          /\ UNCHANGED <<nodes, observed, lastOp>>
     ELSE IF nothingRecorded(txs[d].ops)
     THEN /\ last' = [call |-> "save", inTx |-> TRUE, result |-> "nothing", d |-> d]
          /\ UNCHANGED <<nodes, observed, lastOp>>
     ELSE Replay(d, Compound(Helpers_flatten(txs[d].ops)))
  /\ UNCHANGED <<annVars, impl, txs>>
  /\ UNCHANGED txVars

\* simulation.save
simulation_save(d) ==
  /\ impl = "sim"
  /\ d \in 1..Len(txs)
  /\ observed < MaxObserved
  /\ LET _ops == simulation_flatten(txs[d].ops)
     IN  IF nothingRecorded(_ops)
         THEN /\ last' = [call |-> "save", inTx |-> TRUE, result |-> "nothing", d |-> d]
              /\ UNCHANGED <<nodes, observed, lastOp>>
         ELSE Replay(d, Compound(_ops))
  /\ UNCHANGED <<annVars, impl, txs>>
  /\ UNCHANGED txVars

\* the shadow / simulation is dropped (cancel; dispose after a session's save)
discard(d) ==
  /\ d \in 1..Len(txs)
  /\ txs' = SubSeq(txs, 1, d - 1) \o SubSeq(txs, d + 1, Len(txs))
  /\ last' = Call("discard", TRUE, "ok")
  /\ UNCHANGED <<annVars, impl, nodes, observed, lastOp>>
  /\ UNCHANGED txVars

Next ==
  \/ \E op \in OpInputs : apply(op)
  \/ startTransaction
  \/ startSimulation
  \/ \E d \in 1..MaxOpen, op \in OpInputs : shadow_apply(d, op)
  \/ \E d \in 1..MaxOpen, op \in OpInputs : simulation_apply(d, op)
  \/ \E d \in 0..MaxOpen : save(d)
  \/ \E d \in 1..MaxOpen : simulation_save(d)
  \/ \E d \in 1..MaxOpen : discard(d)

Spec == Init /\ [][Next]_vars

-----------------------------------------------------------------------------
(* SpecTx: the Document with the isTransacting flag and operation listeners *)

Listeners == {"l1", "l2"}

\* the priority argument of addOperationListener: <<>> is "not given"
PriorityInputs == {<<>>, <<0>>, <<5>>, <<20>>}

DefaultPriority == 10

\* the operations create / delete / set hand to this.data
TxOps == {Create([id |-> "n1", type |-> "paragraph", content |-> 0]),
          Delete("n1"), Set("n1", 1)}

\* priority || 10
priorityOrDefault(p) ==
  IF p = <<>> \/ p[1] = 0 THEN DefaultPriority ELSE p[1]

\* operationListeners.sort(function(a,b) { return a.__priority - b.__priority; })
RECURSIVE sortByPriority(_, _)
sortByPriority(ls, prio) ==
  IF Len(ls) <= 1 THEN ls
  ELSE LET front == sortByPriority(SubSeq(ls, 1, Len(ls) - 1), prio)
           x == ls[Len(ls)]
           k == Cardinality({i \in 1..Len(front) : prio[front[i]] - prio[x] <= 0})
       IN  SubSeq(front, 1, k) \o <<x>> \o SubSeq(front, k + 1, Len(front))

\* without the try/catch: the loop ends at the first listener that throws
RECURSIVE notifyAll_abort(_, _)
notifyAll_abort(ls, T) ==
  IF ls = <<>> THEN <<>>
  ELSE <<[ev |-> "notify", l |-> Head(ls), threw |-> Head(ls) \in T]>>
         \o (IF Head(ls) \in T THEN <<>> ELSE notifyAll_abort(Tail(ls), T))

\* the first loop of onOperationApplied: every listener is called, in array
\* order; T is the set of listeners whose onOperationApplied throws
RECURSIVE notifyAll(_, _)
notifyAll(ls, T) ==
  IF ls = <<>> THEN <<>>
  ELSE <<[ev |-> "notify", l |-> Head(ls), threw |-> Head(ls) \in T]>>
         \o notifyAll(Tail(ls), T)

\* the second loop left out: nobody is reset
resetFailed_none(ls, T) == <<>>

\* the failed array, and the second loop calling reset() on each
RECURSIVE resetFailed(_, _)
resetFailed(ls, T) ==
  IF ls = <<>> THEN <<>>
  ELSE (IF Head(ls) \in T
        THEN <<[ev |-> "reset", l |-> Head(ls), threw |-> FALSE]>> ELSE <<>>)
         \o resetFailed(Tail(ls), T)

\* ChangeMap.update(op)
ChangeMap_update(cm, op) == <<cm[1] \cup Touched(op)>>

InitTx ==
  /\ impl = "tx"
  /\ nodes \in {Graph_init(s) : s \in {Seed} \cup SeedInputs}
  /\ txs = <<>>
  /\ observed = 0
  /\ lastOp = <<>>
  /\ last = Call("new", FALSE, "ok")
  /\ isTransacting = FALSE
  /\ transactionChanges = <<>>
  /\ recoveryPoint = nodes
  /\ operationListeners = <<>>
  /\ priority = [l \in {} |-> 0]
  /\ given = [l \in {} |-> <<>>]
  /\ trace = <<>>
  /\ observedAtStart = 0
  /\ withTransformation = FALSE
  /\ disposed = FALSE
  /\ uuids = 0

\* Document.onOperationApplied, called for every 'operation:applied' of this.data
onOperationApplied(op, T) ==
  IF transactionChanges = <<>>
  THEN \* this.transactionChanges is null: update() of null throws
       /\ last' = Call("apply", isTransacting, "TypeError")
       /\ trace' = <<>>
       /\ UNCHANGED <<transactionChanges, observed>>
  ELSE /\ transactionChanges' = ChangeMap_update(transactionChanges, op)
       /\ trace' = notifyAll(operationListeners, T) \o resetFailed(operationListeners, T)
       /\ observed' = observed + 1
       /\ last' = Call("apply", isTransacting, "applied")

\* Document.create / delete / set: this.data applies the operation and fires
\* 'operation:applied'
data_apply(op, T) ==
  /\ observed < MaxDelivered
  /\ T \subseteq {operationListeners[i] : i \in 1..Len(operationListeners)}
  /\ LET r == Exec(nodes, op)
     IN  IF r.ok
         THEN /\ nodes' = r.g
              /\ onOperationApplied(op, T)
         ELSE /\ T = {}
              /\ last' = Call("apply", isTransacting, "throw")
              /\ trace' = <<>>
              /\ UNCHANGED <<nodes, transactionChanges, observed>>
  /\ UNCHANGED <<annVars, impl, txs, lastOp, isTransacting, recoveryPoint,
                 operationListeners, priority, given, observedAtStart>>

\* Document.startTransaction (part_001)
startTransaction_tx ==
  /\ IF isTransacting
     THEN /\ last' = Call("startTransaction", TRUE, "throw")
          /\ UNCHANGED <<isTransacting, transactionChanges, recoveryPoint, observedAtStart>>
     ELSE /\ isTransacting' = TRUE
          /\ transactionChanges' = <<{}>>
          /\ recoveryPoint' = nodes
          /\ observedAtStart' = observed
          /\ last' = Call("startTransaction", FALSE, "ok")
  /\ trace' = <<>>
  /\ UNCHANGED <<annVars, impl, nodes, txs, observed, lastOp, operationListeners, priority, given>>

\* Document.cancelTransaction
cancelTransaction ==
  /\ IF ~isTransacting
     THEN /\ last' = Call("cancelTransaction", FALSE, "throw")
          /\ UNCHANGED <<nodes, isTransacting>>
     ELSE /\ nodes' = recoveryPoint
          /\ isTransacting' = FALSE
          /\ last' = Call("cancelTransaction", TRUE, "ok")
  /\ trace' = <<>>
  /\ UNCHANGED <<annVars, impl, txs, observed, lastOp, transactionChanges, recoveryPoint,
                 operationListeners, priority, given, observedAtStart>>

\* Document.finishTransaction
finishTransaction ==
  /\ IF ~isTransacting
     THEN /\ last' = Call("finishTransaction", FALSE, "throw")
          /\ UNCHANGED <<isTransacting, recoveryPoint>>
     ELSE /\ isTransacting' = FALSE
          /\ recoveryPoint' = nodes
          /\ last' = Call("finishTransaction", TRUE, "ok")
  /\ trace' = <<>>
  /\ UNCHANGED <<annVars, impl, nodes, txs, observed, lastOp, transactionChanges,
                 operationListeners, priority, given, observedAtStart>>

\* Document.addOperationListener; a listener object is registered once
addOperationListener(l, p) ==
  /\ l \notin {operationListeners[i] : i \in 1..Len(operationListeners)}
  /\ priority' = [x \in DOMAIN priority \cup {l} |->
                    IF x = l THEN priorityOrDefault(p) ELSE priority[x]]
  /\ given' = [x \in DOMAIN given \cup {l} |-> IF x = l THEN p ELSE given[x]]
  /\ operationListeners' = sortByPriority(Append(operationListeners, l), priority')
  /\ last' = Call("addOperationListener", isTransacting, "ok")
  /\ trace' = <<>>
  /\ UNCHANGED <<annVars, impl, nodes, txs, observed, lastOp, isTransacting,
                 transactionChanges, recoveryPoint, observedAtStart>>

\* Document.removeOperationListener
removeOperationListener(l) ==
  /\ LET idx == {i \in 1..Len(operationListeners) : operationListeners[i] = l}
     IN  IF idx # {}
         THEN LET i == CHOOSE j \in idx : \A k \in idx : j <= k
              IN  operationListeners' = SubSeq(operationListeners, 1, i - 1)
                     \o SubSeq(operationListeners, i + 1, Len(operationListeners))
         ELSE UNCHANGED operationListeners
  /\ priority' = [x \in DOMAIN priority \ {l} |-> priority[x]]
  /\ given' = [x \in DOMAIN given \ {l} |-> given[x]]
  /\ last' = Call("removeOperationListener", isTransacting, "ok")
  /\ trace' = <<>>
  /\ UNCHANGED <<annVars, impl, nodes, txs, observed, lastOp, isTransacting,
                 transactionChanges, recoveryPoint, observedAtStart>>

NextTx ==
  \/ \E op \in TxOps, T \in SUBSET Listeners : data_apply(op, T)
  \/ startTransaction_tx
  \/ cancelTransaction
  \/ finishTransaction
  \/ \E l \in Listeners, p \in PriorityInputs : addOperationListener(l, p)
  \/ \E l \in Listeners : removeOperationListener(l)

SpecTx == InitTx /\ [][NextTx]_vars

-----------------------------------------------------------------------------
(* SpecAnn: the Annotator of src/src/annotator.js over a document whose     *)
(* annotation behaviour is Annotator.defaultBehavior.  The graph holds text *)
(* nodes [type, content] (content is the length of the text) and annotation *)
(* nodes [type, path, range].                                               *)

MaxChar == 3
MaxUuid == 3
MaxApplied == 3

\* the annotation types of the document's schema (type chain holds 'annotation')
AnnotationTypes == {"emphasis", "strong", "link", "idea", "code", "subscript"}

\* schema.typeChain(type).indexOf("annotation") >= 0
IsAnnotation(node) == node.type \in AnnotationTypes

\* Annotator.defaultBehavior.groups
groups ==
  [t \in {"emphasis", "strong", "link", "question", "idea", "error"} |->
     IF t \in {"emphasis", "strong", "link"} THEN "style" ELSE "marker"]

\* Annotator.defaultBehavior.split
split == <<"emphasis", "strong">>

\* Annotator.isOnNodeStart
isOnNodeStart(a) == a.range[1] = 0

\* Annotator.defaultBehavior.expansion: [left, right] predicates of a type
expansion(a) ==
  IF a.type \in {"emphasis", "strong"}
  THEN [left |-> isOnNodeStart(a), right |-> FALSE]
  ELSE [left |-> FALSE, right |-> FALSE]

\* this.groups[type]: <<>> is undefined
groupOf(type) == IF type \in DOMAIN groups THEN <<groups[type]>> ELSE <<>>

\* Annotator.isExclusive
isExclusive(type1, type2) == groupOf(type1) = groupOf(type2)

\* isSplittable with the lookup in split left out: every type is splittable
isSplittable_always(type) == TRUE

\* Annotator.isSplittable
isSplittable(type) == \E i \in 1..Len(split) : split[i] = type

\* util.uuid(): the id handed out after u others
uuid(u) == "a" \o ToString(u + 1)

\* path p is a prefix of path q
IsPrefix(p, q) == Len(p) <= Len(q) /\ SubSeq(q, 1, Len(p)) = p

\* the 'annotations' index (property 'path'): ids of the annotations whose
\* path starts with p
Index_get(g, p) ==
  {id \in DOMAIN g : IsAnnotation(g[id]) /\ IsPrefix(p, g[id].path)}

\* a JavaScript condition on an optional number: undefined (<<>>) and 0 are falsy
Truthy(x) == x # <<>> /\ x[1] # 0

\* range[1] of a query range: <<>> when the end was omitted
sEnd(range) == IF Len(range) >= 2 THEN <<range[2]>> ELSE <<>>

\* _filterByNodeAndRange: the overlap test of one annotation; range is
\* <<sStart>> or <<sStart, sEnd>>
overlaps(a, range) ==
  /\ a.range[2] >= range[1]
  /\ (Truthy(sEnd(range)) => a.range[1] <= range[2])

\* _filterByNodeAndRange(view, nodeId, range); range <<>> is no range
filterByNodeAndRange(g, nodeId, range) ==
  IF range = <<>>
  THEN Index_get(g, <<nodeId>>)
  ELSE {id \in Index_get(g, <<nodeId>>) : overlaps(g[id], range)}

\* Document.getAnnotations(path, start, end) of part_001; start and end are
\* <<>> (not given) or <<offset>>
Document_getAnnotations(g, path, start, end) ==
  IF Truthy(start)
  THEN {id \in Index_get(g, path) :
          /\ g[id].range[2] >= start[1]
          /\ (Truthy(end) => g[id].range[1] <= end[1])}
  ELSE Index_get(g, path)

\* the state an Annotator call works on: the graph, the ids handed out and
\* the number of operations applied to the document
St(g, u, k) == [g |-> g, u |-> u, k |-> k]

\* _delete(self, annotation): document.delete(annotation.id)
Annotator_delete(st, id) == St(Without(st.g, id), st.u, st.k + 1)

\* _update(self, annotation, newRange): a Set operation on the range
Annotator_update(st, id, newRange) ==
  St([st.g EXCEPT ![id].range = newRange], st.u, st.k + 1)

\* _create(self, path, type, range): a new annotation under a fresh id
Annotator_create(st, path, type, range) ==
  St([i \in DOMAIN st.g \cup {uuid(st.u)} |->
        IF i = uuid(st.u) THEN [type |-> type, path |-> path, range |-> range]
        ELSE st.g[i]],
     st.u + 1, st.k + 1)

\* _truncate with the tail case leaving the range as it is
truncate_tailKept(st, id, range) ==
  LET a  == st.g[id]
      s1 == a.range[1]
      s2 == range[1]
      e1 == a.range[2]
      e2 == range[2]
  IN  IF s1 >= s2 /\ e1 <= e2 THEN Annotator_delete(st, id)
      ELSE IF s1 >= s2 /\ e1 > e2 THEN Annotator_update(st, id, <<e2, e1>>)
      ELSE IF s1 < s2 /\ e1 <= e2 THEN Annotator_update(st, id, <<s1, e1>>)
      ELSE IF isSplittable(a.type)
           THEN Annotator_create(Annotator_update(st, id, <<s1, s2>>),
                                 a.path, a.type, <<e2, e1>>)
           ELSE Annotator_delete(st, id)

\* _truncate(self, annotation, range)
truncate(st, id, range) ==
  LET a  == st.g[id]
      s1 == a.range[1]
      s2 == range[1]
      e1 == a.range[2]
      e2 == range[2]
  IN  IF s1 >= s2 /\ e1 <= e2 THEN Annotator_delete(st, id)
      ELSE IF s1 >= s2 /\ e1 > e2 THEN Annotator_update(st, id, <<e2, e1>>)
      ELSE IF s1 < s2 /\ e1 <= e2 THEN Annotator_update(st, id, <<s1, s2>>)
      ELSE IF isSplittable(a.type)
           THEN Annotator_create(Annotator_update(st, id, <<s1, s2>>),
                                 a.path, a.type, <<e2, e1>>)
           ELSE Annotator_delete(st, id)

\* annotate, non-collapsed selection: _.each(annotations, ...) over the ids
\* uuid(i-1)..uuid(n-1) of S, in the order they were created
RECURSIVE truncateExclusive(_, _, _, _, _, _)
truncateExclusive(st, i, n, S, type, range) ==
  IF i > n THEN st
  ELSE LET id == uuid(i - 1)
       IN  truncateExclusive(
             IF id \in S /\ isExclusive(type, st.g[id].type)
             THEN truncate(st, id, range) ELSE st,
             i + 1, n, S, type, range)

\* _.each(annotations, _delete) over the ids of S
RECURSIVE deleteEach(_, _, _, _)
deleteEach(st, i, n, S) ==
  IF i > n THEN st
  ELSE deleteEach(IF uuid(i - 1) \in S THEN Annotator_delete(st, uuid(i - 1)) ELSE st,
                  i + 1, n, S)

\* text operations: diff of an update
Insert(pos, len) == [op |-> "insert", pos |-> pos, len |-> len]
TextDelete(pos, len) == [op |-> "delete", pos |-> pos, len |-> len]

Min(a, b) == IF a <= b THEN a ELSE b
Max(a, b) == IF a >= b THEN a ELSE b

\* Operator.TextOperation.Range.transform(range, diff, expandLeft, expandRight)
Range_transform(range, diff, expandLeft, expandRight) ==
  LET start == range[1]
      end   == range[2]
  IN  IF diff.op = "delete"
      THEN LET s == IF diff.pos <= start
                    THEN start - Min(diff.len, start - diff.pos) ELSE start
               e == IF diff.pos <= end
                    THEN end - Min(diff.len, end - diff.pos) ELSE end
           IN  [range |-> <<s, e>>, changed |-> diff.pos <= end]
      ELSE LET ms == diff.pos < start \/ (diff.pos = start /\ ~expandLeft)
               me == diff.pos < end \/ (diff.pos = end /\ expandRight)
           IN  [range |-> <<IF ms THEN start + diff.len ELSE start,
                            IF me THEN end + diff.len ELSE end>>,
                changed |-> ms \/ me]

\* _transform with only updates co-transformed: a set of the
\* annotated property leaves its annotations alone
transform_one_updateOnly(st, op, id) ==
  LET a == st.g[id]
  IN  IF a.path # op.path THEN st
      ELSE IF op.type = "update"
      THEN LET r == Range_transform(a.range, op.diff, expansion(a).left, expansion(a).right)
           IN  IF r.changed
               THEN IF r.range[1] = r.range[2]
                    THEN Annotator_delete(st, id)
                    ELSE Annotator_update(st, id, r.range)
               ELSE st
      ELSE st

\* _transform(op, annotation)
transform_one(st, op, id) ==
  LET a == st.g[id]
  IN  IF a.path # op.path THEN st
      ELSE IF op.type = "update"
      THEN LET r == Range_transform(a.range, op.diff, expansion(a).left, expansion(a).right)
           IN  IF r.changed
               THEN IF r.range[1] = r.range[2]
                    THEN Annotator_delete(st, id)
                    ELSE Annotator_update(st, id, r.range)
               ELSE st
      ELSE Annotator_delete(st, id)

\* Annotator.transform(op): _.each(annotations, _transform) over the ids of S
RECURSIVE transform(_, _, _, _, _)
transform(st, op, i, n, S) ==
  IF i > n THEN st
  ELSE transform(IF uuid(i - 1) \in S THEN transform_one(st, op, uuid(i - 1)) ELSE st,
                 op, i + 1, n, S)

\* handleOperation with the annotations of a deleted node kept
handleOperation_keep(st, op) ==
  IF op.type \in {"delete", "create"} THEN st
  ELSE IF op.path[1] \notin DOMAIN st.g THEN st
  ELSE IF IsAnnotation(st.g[op.path[1]]) THEN st
  ELSE IF withTransformation
       THEN transform(st, op, 1, st.u, Index_get(st.g, op.path))
       ELSE st

\* Annotator.handleOperation(op), the listener of 'operation:applied'; st is
\* the state after op was applied
handleOperation(st, op) ==
  IF op.type \in {"delete", "create"}
  THEN IF IsAnnotation(op.val) THEN st
       ELSE IF op.type = "delete"
            THEN deleteEach(st, 1, st.u, Index_get(st.g, op.path))
            ELSE st
  ELSE IF op.path[1] \notin DOMAIN st.g THEN st
  ELSE IF IsAnnotation(st.g[op.path[1]]) THEN st
  ELSE IF withTransformation
       THEN transform(st, op, 1, st.u, Index_get(st.g, op.path))
       ELSE st

\* copy: the fragments of the annotations S for the selection's range
RECURSIVE copyEach(_, _, _, _, _, _)
copyEach(g, u, i, n, S, range) ==
  IF i > n THEN <<>>
  ELSE IF uuid(i - 1) \notin S THEN copyEach(g, u, i + 1, n, S, range)
  ELSE LET a == g[uuid(i - 1)]
           isPartial == range[1] > a.range[1] \/ range[2] < a.range[2]
       IN  IF isPartial
           THEN IF isSplittable(a.type)
                THEN <<[id |-> uuid(u), type |-> a.type, path |-> a.path,
                        range |-> <<Max(0, a.range[1] - range[1]), a.range[2] - range[1]>>]>>
                     \o copyEach(g, u + 1, i + 1, n, S, range)
                ELSE copyEach(g, u, i + 1, n, S, range)
           ELSE <<[id |-> uuid(u), type |-> a.type, path |-> a.path,
                   range |-> <<a.range[1] - range[1], a.range[2] - range[1]>>]>>
                \o copyEach(g, u + 1, i + 1, n, S, range)

\* a paste that shifts the ranges but keeps every annotation on its node
RECURSIVE pasteEach_samePath(_, _, _, _)
pasteEach_samePath(st, annotations, newNodeId, offset) ==
  IF annotations = <<>> THEN [st |-> st, threw |-> FALSE]
  ELSE LET a == Head(annotations)
           range == IF offset # <<>>
                    THEN <<a.range[1] + offset[1], a.range[2] + offset[1]>> ELSE a.range
       IN  IF a.id \in DOMAIN st.g THEN [st |-> st, threw |-> TRUE]
           ELSE pasteEach_samePath(
                  St([i \in DOMAIN st.g \cup {a.id} |->
                        IF i = a.id THEN [type |-> a.type, path |-> a.path, range |-> range]
                        ELSE st.g[i]], st.u, st.k + 1),
                  Tail(annotations), newNodeId, offset)

\* paste: the loop over the copied annotations; a create of an id the graph
\* holds throws and ends the loop
RECURSIVE pasteEach(_, _, _, _)
pasteEach(st, annotations, newNodeId, offset) ==
  IF annotations = <<>> THEN [st |-> st, threw |-> FALSE]
  ELSE LET a == Head(annotations)
           path == IF newNodeId # <<>> THEN <<newNodeId[1]>> \o Tail(a.path) ELSE a.path
           range == IF offset # <<>>
                    THEN <<a.range[1] + offset[1], a.range[2] + offset[1]>> ELSE a.range
       IN  IF a.id \in DOMAIN st.g THEN [st |-> st, threw |-> TRUE]
           ELSE pasteEach(
                  St([i \in DOMAIN st.g \cup {a.id} |->
                        IF i = a.id THEN [type |-> a.type, path |-> path, range |-> range]
                        ELSE st.g[i]], st.u, st.k + 1),
                  Tail(annotations), newNodeId, offset)

\* the text nodes of the document and the seed it is built from
TextNodes == {"n1", "n2"}

AnnSeed ==
  [nodes |-> Seed.nodes
             @@ ("n1" :> [type |-> "paragraph", content |-> MaxChar])
             @@ ("n2" :> [type |-> "heading", content |-> MaxChar])]

\* selections: {start: [node, char], end: [node, char]}, start before end
SelectionInputs ==
  {[start |-> <<"n1", s>>, end |-> <<"n1", e>>] : s \in 0..MaxChar, e \in 0..MaxChar}
  \cup {[start |-> <<"n2", 0>>, end |-> <<"n2", 1>>],
        [start |-> <<"n1", MaxChar>>, end |-> <<"n2", 0>>]}

\* the selections copy is called with: up to the end of the text of n1
CopyInputs ==
  {[start |-> <<"n1", s>>, end |-> <<"n1", MaxChar>>] : s \in 0..MaxChar}

IsSelection(sel) == sel.start[1] # sel.end[1] \/ sel.start[2] <= sel.end[2]

\* the types annotate is called with
TypeInputs == {"strong", "link", "idea"}

\* the diffs update is called with
DiffInputs ==
  {Insert(p, 1) : p \in 0..MaxChar} \cup {TextDelete(p, l) : p \in 0..MaxChar, l \in 1..2}

OffsetInputs == {<<>>, <<0>>, <<1>>}
NodeIdInputs == {<<>>, <<"n1">>, <<"n2">>}

InitAnn ==
  /\ impl = "annotator"
  /\ nodes = Graph_init(AnnSeed)
  /\ withTransformation \in BOOLEAN
  /\ disposed = FALSE
  /\ uuids = 0
  /\ txs = <<>>
  /\ observed = 0
  /\ lastOp = <<>>
  /\ last = Call("new", FALSE, "ok")
  /\ isTransacting = FALSE
  /\ transactionChanges = <<>>
  /\ recoveryPoint = NoNodes
  /\ operationListeners = <<>>
  /\ priority = [l \in {} |-> 0]
  /\ given = [l \in {} |-> <<>>]
  /\ trace = <<>>
  /\ observedAtStart = 0

\* the result st of a call: the graph, the ids handed out, the operations applied
Becomes(st) ==
  /\ st.u <= MaxUuid
  /\ nodes' = st.g
  /\ uuids' = st.u
  /\ observed' = st.k

\* no selection is taken to span nodes
isMultiNode_never(sel) == FALSE

\* the selection starts and ends in different nodes
isMultiNode(sel) ==
  sel.start[1] # sel.end[1]

\* Annotator.annotate(selection, type)
annotate(sel, type) ==
  /\ observed < MaxApplied
  /\ IsSelection(sel)
  /\ sel.start[1] \in DOMAIN nodes /\ sel.end[1] \in DOMAIN nodes
  /\ IF isMultiNode(sel)
     THEN /\ last' = [call |-> "annotate", inTx |-> FALSE, result |-> "throw",
                      sel |-> sel, type |-> type]
          /\ UNCHANGED <<nodes, uuids, observed>>
     ELSE LET node  == sel.start[1]
              range == <<sel.start[2], sel.end[2]>>
              found == filterByNodeAndRange(nodes, node, range)
              st0   == St(nodes, uuids, observed)
              toggled == \E id \in found :
                            isExclusive(type, nodes[id].type) /\ type = nodes[id].type
              st == IF range[1] = range[2]
                    THEN deleteEach(st0, 1, uuids, {id \in found : nodes[id].type = type})
                    ELSE LET t == truncateExclusive(st0, 1, uuids, found, type, range)
                         IN  IF toggled THEN t
                             ELSE Annotator_create(t, <<node, "content">>, type, range)
          IN  /\ Becomes(st)
              /\ last' = [call |-> "annotate", inTx |-> FALSE, result |-> "ok",
                          sel |-> sel, type |-> type]
  /\ UNCHANGED <<impl, txs, lastOp, withTransformation, disposed>>
  /\ UNCHANGED txVars

\* document.update([n, "content"], diff) and the Annotator's handleOperation
document_update(n, diff) ==
  /\ observed < MaxApplied
  /\ n \in TextNodes \cap DOMAIN nodes
  /\ diff.pos + (IF diff.op = "delete" THEN diff.len ELSE 0) <= nodes[n].content
  /\ LET len == IF diff.op = "delete" THEN nodes[n].content - diff.len
                ELSE nodes[n].content + diff.len
         op  == [type |-> "update", path |-> <<n, "content">>, diff |-> diff]
     IN  Becomes(handleOperation(St([nodes EXCEPT ![n].content = len], uuids, observed + 1), op))
  /\ last' = [call |-> "update", inTx |-> FALSE, result |-> "ok",
              path |-> <<n, "content">>, diff |-> diff]
  /\ UNCHANGED <<impl, txs, lastOp, withTransformation, disposed>>
  /\ UNCHANGED txVars

\* document.set([n, "content"], value) and the Annotator's handleOperation
document_set(n, value) ==
  /\ observed < MaxApplied
  /\ n \in TextNodes \cap DOMAIN nodes
  /\ LET op == [type |-> "set", path |-> <<n, "content">>, newval |-> value]
     IN  Becomes(handleOperation(St([nodes EXCEPT ![n].content = value], uuids, observed + 1), op))
  /\ last' = [call |-> "set", inTx |-> FALSE, result |-> "ok",
              path |-> <<n, "content">>, value |-> value]
  /\ UNCHANGED <<impl, txs, lastOp, withTransformation, disposed>>
  /\ UNCHANGED txVars

\* document.delete(id) and the Annotator's handleOperation
document_delete(id) ==
  /\ observed < MaxApplied
  /\ id \in DOMAIN nodes \ DOMAIN Seed.nodes
  /\ LET op == [type |-> "delete", path |-> <<id>>, val |-> nodes[id]]
     IN  Becomes(handleOperation(St(Without(nodes, id), uuids, observed + 1), op))
  /\ last' = [call |-> "delete", inTx |-> FALSE, result |-> "ok", id |-> id]
  /\ UNCHANGED <<impl, txs, lastOp, withTransformation, disposed>>
  /\ UNCHANGED txVars

\* Annotator.copy(selection), a selection inside one node
copy(sel) ==
  /\ IsSelection(sel)
  /\ sel.start[1] = sel.end[1]
  /\ sel.start[1] \in DOMAIN nodes
  /\ LET range  == <<sel.start[2], sel.end[2]>>
         found  == filterByNodeAndRange(nodes, sel.start[1], range)
         result == copyEach(nodes, uuids, 1, uuids, found, range)
     IN  /\ uuids + Len(result) <= MaxUuid
         /\ uuids' = uuids + Len(result)
         /\ last' = [call |-> "copy", inTx |-> FALSE, result |-> result, sel |-> sel]
  /\ UNCHANGED <<impl, nodes, txs, observed, lastOp, withTransformation, disposed>>
  /\ UNCHANGED txVars

\* Annotator.paste(annotations, newNodeId, offset) of the annotations just copied
paste(newNodeId, offset) ==
  /\ observed < MaxApplied
  /\ last.call = "copy"
  /\ LET r == pasteEach(St(nodes, uuids, observed), last.result, newNodeId, offset)
     IN  /\ Becomes(r.st)
         /\ last' = [call |-> "paste", inTx |-> FALSE,
                     result |-> IF r.threw THEN "throw" ELSE "ok",
                     newNodeId |-> newNodeId, offset |-> offset]
  /\ UNCHANGED <<impl, txs, lastOp, withTransformation, disposed>>
  /\ UNCHANGED txVars

NextAnn ==
  \/ \E sel \in SelectionInputs, type \in TypeInputs : annotate(sel, type)
  \/ \E diff \in DiffInputs : document_update("n1", diff)
  \/ \E n \in TextNodes : document_set(n, 0)
  \/ \E id \in DOMAIN nodes : document_delete(id)
  \/ \E sel \in CopyInputs : copy(sel)
  \/ \E newNodeId \in NodeIdInputs, offset \in OffsetInputs : paste(newNodeId, offset)

SpecAnn == InitAnn /\ [][NextAnn]_vars

\* SpecAnnotate: annotate calls only, from the document without annotations
AllTypeInputs == TypeInputs \cup {"emphasis", "code"}

NextAnnotate ==
  \E sel \in SelectionInputs, type \in AllTypeInputs : annotate(sel, type)

SpecAnnotate == InitAnn /\ [][NextAnnotate]_vars

\* SpecUngrouped: annotate calls with a grouped type and the two types of the
\* schema that defaultBehavior assigns no group
UngroupedTypeInputs == {"strong", "code", "subscript"}

NextUngrouped ==
  \E sel \in SelectionInputs, type \in UngroupedTypeInputs : annotate(sel, type)

SpecUngrouped == InitAnn /\ [][NextUngrouped]_vars

\* SpecCopy: copy of every selection inside n1, and paste of the copies, in
\* documents annotated with a splittable and a non-splittable type
CopyTypeInputs == {"strong", "link"}

CopySelections ==
  {[start |-> <<"n1", s>>, end |-> <<"n1", e>>] : s \in 0..MaxChar, e \in 0..MaxChar}

NextCopy ==
  \/ \E sel \in CopySelections, type \in CopyTypeInputs : annotate(sel, type)
  \/ \E sel \in CopySelections : copy(sel)
  \/ \E newNodeId \in NodeIdInputs, offset \in OffsetInputs : paste(newNodeId, offset)

SpecCopy == InitAnn /\ [][NextCopy]_vars

-----------------------------------------------------------------------------
(* SpecView: Document.show and Document.hide on the nodes sequence of a      *)
(* container (the "view" node of the seed), src/src/document.js 160-242.     *)

MaxShown == 3
MaxTarget == 3

\* ArrayOperation.Insert(pos, val) and ArrayOperation.Delete(pos, val)
ArrayInsert(pos, val) == [op |-> "+", pos |-> pos, val |-> val]
ArrayDelete(pos, val) == [op |-> "-", pos |-> pos, val |-> val]

\* ArrayOperation.Compound(ops) applied to an array (positions from 0): the
\* operations one after the other; a Delete of a value the array does not
\* hold at its position is rejected
RECURSIVE ArrayCompound_apply(_, _)
ArrayCompound_apply(ops, array) ==
  IF ops = <<>> THEN [array |-> array, threw |-> FALSE]
  ELSE LET o == Head(ops)
       IN  IF o.op = "+"
           THEN IF o.pos > Len(array) THEN [array |-> array, threw |-> TRUE]
                ELSE ArrayCompound_apply(Tail(ops),
                       SubSeq(array, 1, o.pos) \o <<o.val>>
                         \o SubSeq(array, o.pos + 1, Len(array)))
           ELSE IF o.pos >= Len(array) \/ array[o.pos + 1] # o.val
                THEN [array |-> array, threw |-> TRUE]
                ELSE ArrayCompound_apply(Tail(ops),
                       SubSeq(array, 1, o.pos) \o SubSeq(array, o.pos + 2, Len(array)))

\* if (_.isString(nodes)) nodes = [nodes]; a string argument is held as
\* value[1]
asList(nodeIds) == IF nodeIds.isString THEN <<nodeIds.value[1]>> ELSE nodeIds.value

\* the node is a container: get wraps it in a Container, which has nodes
isContainer(g, viewId) ==
  viewId \in DOMAIN g /\ g[viewId].type \in {"view", "container"}

\* every target is taken as the end of the container
showTarget_end(target, l) == l

\* show: the index the first id is inserted at, for a container of length l
showTarget(target, l) ==
  LET t0 == IF target = <<>> THEN -1 ELSE target[1]
      t1 == Min(t0, l)
  IN  IF t1 < 0 THEN Max(0, l + t1 + 1) ELSE t1

\* every id is taken as the id of a node of the graph
isNode_always(g, nodeId) == TRUE

\* this.graph.nodes[nodeId] !== undefined
isNode(g, nodeId) ==
  nodeId \in DOMAIN g

\* show: the loop that builds the Insert operations; <<>> stands for the
\* DocumentError thrown at the first id that is not a node
showOps(g, list, target) ==
  IF \E idx \in 1..Len(list) : ~isNode(g, list[idx]) THEN <<>>
  ELSE <<[idx \in 1..Len(list) |-> ArrayInsert(target + idx - 1, list[idx])]>>

\* view.nodes.indexOf(n): the first position of n (from 0), or -1
indexOf(array, n) ==
  IF \E i \in 1..Len(array) : array[i] = n
  THEN (CHOOSE i \in 1..Len(array) :
          array[i] = n /\ \A j \in 1..(i - 1) : array[j] # n) - 1
  ELSE -1

\* hide: the positions of the listed ids that occur in the container, in the
\* order of the list
RECURSIVE hideIndexes(_, _)
hideIndexes(array, list) ==
  IF list = <<>> THEN <<>>
  ELSE LET i == indexOf(array, Head(list))
       IN  (IF i >= 0 THEN <<i>> ELSE <<>>) \o hideIndexes(array, Tail(list))

\* the decimal digits of an index, as Array.prototype.sort compares them
digits(i) == IF i < 10 THEN <<i>> ELSE <<i \div 10, i % 10>>

\* the string of i sorts before the string of j
RECURSIVE seqLess(_, _)
seqLess(a, b) ==
  IF a = <<>> THEN b # <<>>
  ELSE IF b = <<>> THEN FALSE
  ELSE IF Head(a) # Head(b) THEN Head(a) < Head(b)
  ELSE seqLess(Tail(a), Tail(b))

\* indexes.sort(): without a compare function, by the elements' strings
RECURSIVE sort(_)
sort(indexes) ==
  IF indexes = <<>> THEN <<>>
  ELSE LET m == CHOOSE k \in 1..Len(indexes) :
                  \A j \in 1..Len(indexes) :
                    indexes[j] = indexes[k] \/ seqLess(digits(indexes[k]), digits(indexes[j]))
       IN  <<indexes[m]>>
           \o sort(SubSeq(indexes, 1, m - 1) \o SubSeq(indexes, m + 1, Len(indexes)))

reverse(s) == [i \in 1..Len(s) |-> s[Len(s) + 1 - i]]

\* _.uniq: the first occurrence of every element
RECURSIVE uniq(_)
uniq(s) ==
  IF s = <<>> THEN <<>>
  ELSE LET r == uniq(SubSeq(s, 1, Len(s) - 1))
       IN  IF \E i \in 1..Len(r) : r[i] = s[Len(s)] THEN r ELSE r \o <<s[Len(s)]>>

\* the ids show and hide are called with: a container, a paragraph, no node
ViewIdInputs == {"content", "n1", "zz"}

\* the ids listed: two nodes and an id that is no node, as an array of up to
\* two ids or as a single string
ListedIds == {"n1", "n2", "zz"}

NodeIdsInputs ==
  {[isString |-> FALSE, value |-> <<>>]}
  \cup {[isString |-> FALSE, value |-> <<a>>] : a \in ListedIds}
  \cup {[isString |-> FALSE, value |-> <<a, b>>] : a \in ListedIds, b \in ListedIds}
  \cup {[isString |-> TRUE, value |-> <<a>>] : a \in ListedIds}

\* the targets: omitted, or an index
TargetInputs == {<<>>} \cup {<<t>> : t \in (0 - MaxTarget - 1)..MaxTarget}

InitView ==
  /\ impl = "view"
  /\ nodes = Graph_init(AnnSeed)
  /\ withTransformation = FALSE
  /\ disposed = FALSE
  /\ uuids = 0
  /\ txs = <<>>
  /\ observed = 0
  /\ lastOp = <<>>
  /\ last = Call("new", FALSE, "ok")
  /\ isTransacting = FALSE
  /\ transactionChanges = <<>>
  /\ recoveryPoint = NoNodes
  /\ operationListeners = <<>>
  /\ priority = [l \in {} |-> 0]
  /\ given = [l \in {} |-> <<>>]
  /\ trace = <<>>
  /\ observedAtStart = 0

\* Document.show(viewId, nodes, target)
show(viewId, nodeIds, target) ==
  /\ observed < MaxApplied
  /\ LET list == asList(nodeIds)
         r == IF viewId \notin DOMAIN nodes
                THEN [result |-> "Invalid view id", g |-> nodes, applied |-> FALSE]
              ELSE IF ~isContainer(nodes, viewId)
                THEN [result |-> "TypeError", g |-> nodes, applied |-> FALSE]
              ELSE LET view == nodes[viewId]
                       l == Len(view.nodes)
                       ops == showOps(nodes, list, showTarget(target, l))
                   IN  IF ops = <<>>
                         THEN [result |-> "Invalid node id", g |-> nodes, applied |-> FALSE]
                       ELSE IF Len(ops[1]) > 0
                         THEN [result |-> "ok",
                               g |-> [nodes EXCEPT ![viewId].nodes =
                                        ArrayCompound_apply(ops[1], view.nodes).array],
                               applied |-> TRUE]
                       ELSE [result |-> "ok", g |-> nodes, applied |-> FALSE]
     IN  /\ isContainer(r.g, viewId) => Len(r.g[viewId].nodes) <= MaxShown
         /\ nodes' = r.g
         /\ observed' = IF r.applied THEN observed + 1 ELSE observed
         /\ last' = [call |-> "show", inTx |-> FALSE, result |-> r.result,
                     viewId |-> viewId, nodeIds |-> nodeIds, target |-> target]
  /\ UNCHANGED <<impl, txs, lastOp, annVars>>
  /\ UNCHANGED txVars

\* Document.hide(viewId, nodes); when the compound of Deletes is rejected
\* part-way, the container is left either as it was or with the Deletes
\* before the rejected one performed
hide(viewId, nodeIds) ==
  /\ observed < MaxApplied
  /\ \E partial \in BOOLEAN :
     LET list == asList(nodeIds)
         r == IF viewId \notin DOMAIN nodes
                THEN [result |-> "Invalid view id", g |-> nodes, applied |-> FALSE]
              ELSE IF ~isContainer(nodes, viewId)
                THEN [result |-> IF list = <<>> THEN "ok" ELSE "TypeError",
                      g |-> nodes, applied |-> FALSE]
              ELSE LET view == nodes[viewId]
                       indexes == hideIndexes(view.nodes, list)
                       ops == [k \in 1..Len(uniq(reverse(sort(indexes)))) |->
                                 LET index == uniq(reverse(sort(indexes)))[k]
                                 IN  ArrayDelete(index, view.nodes[index + 1])]
                       a == ArrayCompound_apply(ops, view.nodes)
                   IN  IF Len(indexes) = 0
                         THEN [result |-> "ok", g |-> nodes, applied |-> FALSE]
                       ELSE IF a.threw
                         THEN [result |-> "OperationError",
                               g |-> IF partial
                                     THEN [nodes EXCEPT ![viewId].nodes = a.array]
                                     ELSE nodes,
                               applied |-> FALSE]
                       ELSE [result |-> "ok",
                             g |-> [nodes EXCEPT ![viewId].nodes = a.array],
                             applied |-> TRUE]
     IN  /\ nodes' = r.g
         /\ observed' = IF r.applied THEN observed + 1 ELSE observed
         /\ last' = [call |-> "hide", inTx |-> FALSE, result |-> r.result,
                     viewId |-> viewId, nodeIds |-> nodeIds]
  /\ UNCHANGED <<impl, txs, lastOp, annVars>>
  /\ UNCHANGED txVars

NextView ==
  \/ \E viewId \in ViewIdInputs, nodeIds \in NodeIdsInputs, target \in TargetInputs :
       show(viewId, nodeIds, target)
  \/ \E viewId \in ViewIdInputs, nodeIds \in NodeIdsInputs : hide(viewId, nodeIds)

SpecView == InitView /\ [][NextView]_vars

\* SpecHide: hide on a container of MaxHidden distinct entries
MaxHidden == 12

\* the ids of the entries, in the order of the container
hidden(i) == "h" \o ToString(i)

HideSeed ==
  [nodes |-> [id \in {"document", "content"} \cup {hidden(i) : i \in 1..MaxHidden} |->
                IF id = "document" THEN Seed.nodes["document"]
                ELSE IF id = "content"
                  THEN [type |-> "view", nodes |-> [i \in 1..MaxHidden |-> hidden(i)]]
                ELSE [type |-> "paragraph", content |-> MaxChar]]]

\* the ids listed: the first, the third and the last two entries, and an id
\* that is no node
HiddenIds == {hidden(1), hidden(3), hidden(MaxHidden - 1), hidden(MaxHidden), "zz"}

HideInputs ==
  {[isString |-> FALSE, value |-> <<>>]}
  \cup {[isString |-> FALSE, value |-> <<a>>] : a \in HiddenIds}
  \cup {[isString |-> FALSE, value |-> <<a, b>>] : a \in HiddenIds, b \in HiddenIds}

InitHide ==
  /\ impl = "hide"
  /\ nodes = Graph_init(HideSeed)
  /\ withTransformation = FALSE
  /\ disposed = FALSE
  /\ uuids = 0
  /\ txs = <<>>
  /\ observed = 0
  /\ lastOp = <<>>
  /\ last = Call("new", FALSE, "ok")
  /\ isTransacting = FALSE
  /\ transactionChanges = <<>>
  /\ recoveryPoint = NoNodes
  /\ operationListeners = <<>>
  /\ priority = [l \in {} |-> 0]
  /\ given = [l \in {} |-> <<>>]
  /\ trace = <<>>
  /\ observedAtStart = 0

NextHide ==
  \E nodeIds \in HideInputs : hide("content", nodeIds)

SpecHide == InitHide /\ [][NextHide]_vars

-----------------------------------------------------------------------------
(* SpecNotify: one apply on the graph and the notification of its listeners, *)
(* one of which is the Annotator, whose handleOperation applies operations   *)
(* of its own (_delete, _update) from inside the notification. trace is the  *)
(* sequence of events of the last call: "apply" when an apply starts,        *)
(* "notify" for each listener called, "done" when the apply returns.         *)

\* the operations handleOperation applied between the graphs g and h, in the
\* order of its loop over the annotations: a delete of an annotation that
\* is gone, a set of a range that changed
RECURSIVE issued(_, _, _, _)
issued(g, h, i, n) ==
  IF i > n THEN <<>>
  ELSE LET id == uuid(i - 1)
       IN  (IF id \notin DOMAIN g THEN <<>>
            ELSE IF id \notin DOMAIN h
              THEN <<[type |-> "delete", path |-> <<id>>, val |-> g[id]]>>
            ELSE IF h[id] # g[id]
              THEN <<[type |-> "set", path |-> <<id, "range">>, newval |-> h[id].range]>>
            ELSE <<>>)
           \o issued(g, h, i + 1, n)

\* the events of the notification of op to the listeners ls from position i
\* on; the Annotator's handler applies the operations inner, each of which
\* is an apply of its own that notifies every listener (the Annotator
\* answers an operation on an annotation with triggerLater only)
RECURSIVE notifyLog(_, _, _, _)
RECURSIVE applyLog(_, _, _)
applyLog(op, ls, inner) ==
  <<[ev |-> "apply", l |-> "", op |-> op]>>
  \o notifyLog(op, ls, 1, inner)
  \o <<[ev |-> "done", l |-> "", op |-> op]>>

RECURSIVE innerLog(_, _)
innerLog(ls, inner) ==
  IF inner = <<>> THEN <<>>
  ELSE applyLog(Head(inner), ls, <<>>) \o innerLog(ls, Tail(inner))

notifyLog(op, ls, i, inner) ==
  IF i > Len(ls) THEN <<>>
  ELSE <<[ev |-> "notify", l |-> ls[i], op |-> op]>>
       \o (IF ls[i] = "annotator" THEN innerLog(ls, inner) ELSE <<>>)
       \o notifyLog(op, ls, i + 1, inner)

\* the documents operated on: a strong annotation on n1 and an idea
\* annotation on n1 or n2
NotifySeeds ==
  {[nodes |-> AnnSeed.nodes
      @@ ("a1" :> [type |-> "strong", path |-> <<"n1", "content">>, range |-> <<s, e>>])
      @@ ("a2" :> [type |-> "idea", path |-> <<n, "content">>, range |-> <<0, 1>>])] :
     s \in 0..MaxChar, e \in 1..MaxChar, n \in TextNodes}

\* the listeners of the graph in the order they are notified in
ListenerOrders == {<<"annotator", "surface">>, <<"surface", "annotator">>}

InitNotify ==
  /\ impl = "notify"
  /\ \E seed \in NotifySeeds :
       /\ seed.nodes["a1"].range[1] < seed.nodes["a1"].range[2]
       /\ nodes = Graph_init(seed)
  /\ withTransformation \in BOOLEAN
  /\ disposed = FALSE
  /\ operationListeners \in ListenerOrders
  /\ uuids = 2
  /\ txs = <<>>
  /\ observed = 0
  /\ lastOp = <<>>
  /\ last = Call("new", FALSE, "ok")
  /\ isTransacting = FALSE
  /\ transactionChanges = <<>>
  /\ recoveryPoint = NoNodes
  /\ priority = [l \in {} |-> 0]
  /\ given = [l \in {} |-> <<>>]
  /\ trace = <<>>
  /\ observedAtStart = 0

\* graph.apply(op): g is the graph with op performed; the listeners are then
\* notified, the Annotator through handleOperation
Graph_apply(op, g) ==
  LET st0 == St(g, uuids, observed + 1)
      st1 == handleOperation(st0, op)
  IN  /\ Becomes(st1)
      /\ trace' = applyLog([type |-> op.type, path |-> op.path], operationListeners,
                           issued(st0.g, st1.g, 1, st0.u))
      /\ last' = [call |-> op.type, inTx |-> FALSE, result |-> "ok", path |-> op.path]
      /\ UNCHANGED <<impl, txs, lastOp, withTransformation, disposed, isTransacting,
                     transactionChanges, recoveryPoint, operationListeners,
                     priority, given, observedAtStart>>

\* document.delete(id)
Graph_delete(id) ==
  /\ observed < MaxApplied
  /\ id \in DOMAIN nodes \ DOMAIN Seed.nodes
  /\ Graph_apply([type |-> "delete", path |-> <<id>>, val |-> nodes[id]],
                 Without(nodes, id))

\* document.update([n, "content"], diff)
Graph_update(n, diff) ==
  /\ observed < MaxApplied
  /\ n \in TextNodes \cap DOMAIN nodes
  /\ diff.pos + (IF diff.op = "delete" THEN diff.len ELSE 0) <= nodes[n].content
  /\ LET len == IF diff.op = "delete" THEN nodes[n].content - diff.len
                ELSE nodes[n].content + diff.len
     IN  Graph_apply([type |-> "update", path |-> <<n, "content">>, diff |-> diff],
                     [nodes EXCEPT ![n].content = len])

\* document.set([n, "content"], value)
Graph_set(n, value) ==
  /\ observed < MaxApplied
  /\ n \in TextNodes \cap DOMAIN nodes
  /\ Graph_apply([type |-> "set", path |-> <<n, "content">>, newval |-> value],
                 [nodes EXCEPT ![n].content = value])

NextNotify ==
  \/ \E id \in DOMAIN nodes : Graph_delete(id)
  \/ \E diff \in DiffInputs : Graph_update("n1", diff)
  \/ \E n \in TextNodes : Graph_set(n, 0)

SpecNotify == InitNotify /\ [][NextNotify]_vars

-----------------------------------------------------------------------------
(* SpecSession: a simulation started by a DocumentSession (part_001 28-45),  *)
(* with one Annotator on the original document and one on the simulation;    *)
(* simulation.apply records every operation applied to the simulation, the   *)
(* ones its Annotator applies included, and simulation.save replays the log  *)
(* as one compound on the original, whose Annotator is then notified of the  *)
(* compound's operations in their order.                                     *)

MaxRecorded == 2

\* Graph.apply of one operation on the node storage g
Perform(g, op) ==
  IF op.path[1] \notin DOMAIN g THEN [g |-> g, ok |-> FALSE]
  ELSE IF op.type = "delete" THEN [g |-> Without(g, op.path[1]), ok |-> TRUE]
  ELSE IF op.type = "update"
    THEN IF op.diff.op = "delete"
         THEN IF op.diff.pos + op.diff.len > g[op.path[1]].content
              THEN [g |-> g, ok |-> FALSE]
              ELSE [g |-> [g EXCEPT ![op.path[1]].content = @ - op.diff.len], ok |-> TRUE]
         ELSE IF op.diff.pos > g[op.path[1]].content
              THEN [g |-> g, ok |-> FALSE]
              ELSE [g |-> [g EXCEPT ![op.path[1]].content = @ + op.diff.len], ok |-> TRUE]
  ELSE IF op.path[2] = "range"
    THEN [g |-> [g EXCEPT ![op.path[1]].range = op.newval], ok |-> TRUE]
  ELSE [g |-> [g EXCEPT ![op.path[1]].content = op.newval], ok |-> TRUE]

\* the operations of a compound performed one after the other; a rejected
\* one rejects the compound
RECURSIVE PerformAll(_, _)
PerformAll(g, ops) ==
  IF ops = <<>> THEN [g |-> g, ok |-> TRUE]
  ELSE LET r == Perform(g, Head(ops))
       IN  IF r.ok THEN PerformAll(r.g, Tail(ops)) ELSE [g |-> g, ok |-> FALSE]

\* the Annotator notified of the operations of an applied compound, in
\* their order
RECURSIVE handleEach(_, _)
handleEach(st, ops) ==
  IF ops = <<>> THEN st
  ELSE handleEach(handleOperation(st, Head(ops)), Tail(ops))

\* the operations applied to the simulation
SessionOps ==
  {[type |-> "update", path |-> <<"n1", "content">>, diff |-> diff] : diff \in DiffInputs}
  \cup {[type |-> "set", path |-> <<n, "content">>, newval |-> 0] : n \in TextNodes}
  \cup {[type |-> "delete", path |-> <<n>>, val |-> AnnSeed.nodes[n]] : n \in TextNodes}

InitSession ==
  /\ impl = "session"
  /\ \E seed \in NotifySeeds :
       /\ seed.nodes["a1"].range[1] < seed.nodes["a1"].range[2]
       /\ nodes = Graph_init(seed)
  /\ withTransformation \in BOOLEAN
  /\ disposed = FALSE
  /\ uuids = 2
  /\ txs = <<>>
  /\ observed = 0
  /\ lastOp = <<>>
  /\ last = Call("new", FALSE, "ok")
  /\ isTransacting = FALSE
  /\ transactionChanges = <<>>
  /\ recoveryPoint = NoNodes
  /\ operationListeners = <<>>
  /\ priority = [l \in {} |-> 0]
  /\ given = [l \in {} |-> <<>>]
  /\ trace = <<>>
  /\ observedAtStart = 0

\* DocumentSession.startSimulation: a copy of the document with an
\* Annotator of its own
DocumentSession_startSimulation ==
  /\ txs = <<>>
  /\ observed < MaxObserved
  /\ txs' = <<[nodes |-> fromSnapshot(toJSON(nodes)), ops |-> <<>>]>>
  /\ last' = Call("startSimulation", FALSE, "ok")
  /\ UNCHANGED <<impl, nodes, observed, lastOp, annVars>>
  /\ UNCHANGED txVars

\* simulation.apply(op): ops.push(op), the simulation's own apply, and the
\* simulation's Annotator, whose operations go through simulation.apply too
session_apply(op) ==
  /\ txs # <<>>
  /\ Len(txs[1].ops) < MaxRecorded
  /\ LET r   == Perform(txs[1].nodes, op)
         st0 == St(r.g, uuids, 0)
         st1 == IF r.ok THEN handleOperation(st0, op) ELSE st0
     IN  /\ txs' = <<[nodes |-> st1.g,
                      ops |-> txs[1].ops \o <<op>> \o issued(st0.g, st1.g, 1, uuids)]>>
         /\ last' = Call("apply", TRUE, IF r.ok THEN "applied" ELSE "throw")
  /\ UNCHANGED <<impl, nodes, observed, lastOp, annVars>>
  /\ UNCHANGED txVars

\* simulation.save(): the log as one compound applied to the original; the
\* session then disposes of the simulation
session_save ==
  /\ txs # <<>>
  /\ LET _ops == simulation_flatten(txs[1].ops)
         r    == PerformAll(nodes, _ops)
     IN  IF nothingRecorded(_ops)
         THEN /\ last' = Call("save", TRUE, "nothing")
              /\ UNCHANGED <<nodes, observed>>
         ELSE IF ~r.ok
         THEN /\ last' = Call("save", TRUE, "throw")
              /\ UNCHANGED <<nodes, observed>>
         ELSE LET st == handleEach(St(r.g, uuids, observed + 1), _ops)
              IN  /\ nodes' = st.g
                  /\ observed' = st.k
                  /\ last' = Call("save", TRUE, "applied")
  /\ txs' = <<>>
  /\ UNCHANGED <<impl, lastOp, annVars>>
  /\ UNCHANGED txVars

NextSession ==
  \/ DocumentSession_startSimulation
  \/ \E op \in SessionOps : session_apply(op)
  \/ session_save

SpecSession == InitSession /\ [][NextSession]_vars

-----------------------------------------------------------------------------
(* SpecDispose: an Annotator that is disposed of while its document goes on  *)
(* being operated on.  operationListeners holds the handlers the document    *)
(* calls for 'operation:applied'.                                            *)

\* the objects the Annotator has registered with through listenTo: none,
\* its one registration is document.on("operation:applied", ...)
Annotator_listeningTo == {}

\* util.Events.stopListening() of the Annotator: takes its handlers off the
\* objects it registered with through listenTo
stopListening(handlers, listeningTo) ==
  IF "document" \in listeningTo
  THEN SelectSeq(handlers, LAMBDA l : l # "annotator")
  ELSE handlers

InitDispose ==
  /\ impl = "dispose"
  /\ \E seed \in NotifySeeds :
       /\ seed.nodes["a1"].range[1] < seed.nodes["a1"].range[2]
       /\ nodes = Graph_init(seed)
  /\ withTransformation \in BOOLEAN
  /\ disposed = FALSE
  /\ operationListeners = <<"annotator">>
  /\ uuids = 2
  /\ txs = <<>>
  /\ observed = 0
  /\ lastOp = <<>>
  /\ last = Call("new", FALSE, "ok")
  /\ isTransacting = FALSE
  /\ transactionChanges = <<>>
  /\ recoveryPoint = NoNodes
  /\ priority = [l \in {} |-> 0]
  /\ given = [l \in {} |-> <<>>]
  /\ trace = <<>>
  /\ observedAtStart = 0

\* Annotator.dispose()
Annotator_dispose ==
  /\ ~disposed
  /\ disposed' = TRUE
  /\ operationListeners' = stopListening(operationListeners, Annotator_listeningTo)
  /\ last' = Call("dispose", FALSE, "ok")
  /\ UNCHANGED <<impl, nodes, txs, observed, lastOp, withTransformation, uuids,
                 isTransacting, transactionChanges, recoveryPoint, priority,
                 given, trace, observedAtStart>>

\* document.update / set / delete of a text node: the operation is applied
\* and 'operation:applied' is triggered for the registered handlers
document_apply(op) ==
  /\ observed < MaxApplied
  /\ Perform(nodes, op).ok
  /\ LET st0 == St(Perform(nodes, op).g, uuids, observed + 1)
     IN  Becomes(IF \E i \in 1..Len(operationListeners) :
                      operationListeners[i] = "annotator"
                 THEN handleOperation(st0, op) ELSE st0)
  /\ last' = [call |-> op.type, inTx |-> FALSE, result |-> "ok", path |-> op.path]
  /\ UNCHANGED <<impl, txs, lastOp, withTransformation, disposed, isTransacting,
                 transactionChanges, recoveryPoint, operationListeners,
                 priority, given, trace, observedAtStart>>

NextDispose ==
  \/ Annotator_dispose
  \/ \E op \in SessionOps : document_apply(op)

SpecDispose == InitDispose /\ [][NextDispose]_vars

-----------------------------------------------------------------------------
(* SpecQuery: the read-only queries (Annotator.getAnnotations,               *)
(* Document.getAnnotations of part_001, Annotator.isExclusive) over          *)
(* documents loaded with annotations.                                        *)

MaxQuery == 7

\* the documents queried: one annotation on n1, one on n2
QuerySeeds ==
  {[nodes |-> AnnSeed.nodes
      @@ ("a1" :> [type |-> "strong", path |-> <<"n1", "content">>, range |-> <<s, e>>])
      @@ ("a2" :> [type |-> "idea", path |-> <<"n2", "content">>, range |-> <<0, 1>>])] :
     s \in 0..MaxQuery, e \in 1..MaxQuery}

\* query ranges: no range, a start only, or a start and an end
RangeInputs ==
  {<<>>} \cup {<<s>> : s \in 0..MaxQuery}
  \cup {r \in {<<s, e>> : s \in 0..MaxQuery, e \in 0..MaxQuery} : r[1] <= r[2]}

\* an optional offset: <<>> is not given
OptionalOffsets == {<<>>} \cup {<<s>> : s \in 0..MaxQuery}

\* the types isExclusive is called with: the keys of defaultBehavior.levels
\* that the schema declares
ExclusiveInputs == AnnotationTypes

InitQuery ==
  /\ impl = "query"
  /\ nodes \in {Graph_init(seed) : seed \in {s \in QuerySeeds : s.nodes["a1"].range[1] < s.nodes["a1"].range[2]}}
  /\ withTransformation = FALSE
  /\ disposed = FALSE
  /\ uuids = 2
  /\ txs = <<>>
  /\ observed = 0
  /\ lastOp = <<>>
  /\ last = Call("new", FALSE, "ok")
  /\ isTransacting = FALSE
  /\ transactionChanges = <<>>
  /\ recoveryPoint = NoNodes
  /\ operationListeners = <<>>
  /\ priority = [l \in {} |-> 0]
  /\ given = [l \in {} |-> <<>>]
  /\ trace = <<>>
  /\ observedAtStart = 0

\* Annotator.getAnnotations({node: node, range: range})
getAnnotations(node, range) ==
  /\ last' = Call("getAnnotations", FALSE,
                  [node |-> node, range |-> range,
                   found |-> filterByNodeAndRange(nodes, node, range)])
  /\ UNCHANGED <<impl, nodes, txs, observed, lastOp, annVars>>
  /\ UNCHANGED txVars

\* Document.getAnnotations(path, start, end) of part_001
call_Document_getAnnotations(path, start, end) ==
  /\ last' = Call("Document.getAnnotations", FALSE,
                  [path |-> path, start |-> start, end |-> end,
                   found |-> Document_getAnnotations(nodes, path, start, end)])
  /\ UNCHANGED <<impl, nodes, txs, observed, lastOp, annVars>>
  /\ UNCHANGED txVars

\* Annotator.isExclusive(type1, type2)
call_isExclusive(type1, type2) ==
  /\ last' = Call("isExclusive", FALSE,
                  [type1 |-> type1, type2 |-> type2, value |-> isExclusive(type1, type2)])
  /\ UNCHANGED <<impl, nodes, txs, observed, lastOp, annVars>>
  /\ UNCHANGED txVars

NextQuery ==
  \/ \E node \in TextNodes, range \in RangeInputs : getAnnotations(node, range)
  \/ \E node \in TextNodes, start \in OptionalOffsets, end \in OptionalOffsets :
        call_Document_getAnnotations(<<node, "content">>, start, end)
  \/ \E type1 \in ExclusiveInputs, type2 \in ExclusiveInputs : call_isExclusive(type1, type2)

SpecQuery == InitQuery /\ [][NextQuery]_vars

-----------------------------------------------------------------------------
(* Claims *)

IsSave(d) == save(d) \/ simulation_save(d)

\* C1: a save of a transaction whose log holds at least one operation applies
\* exactly one operation to the original, a compound holding every recorded
\* operation: the listeners' count grows by one and every recorded operation
\* is reflected in the original's nodes.
C1_SaveAppliesOneCompound ==
  [][\A d \in 1..MaxOpen :
       (d <= Len(txs) /\ txs[d].ops # <<>> /\ IsSave(d))
         => /\ observed' = observed + 1
            /\ lastOp' # <<>>
            /\ lastOp'[1].type = "compound"
            /\ Helpers_flatten(lastOp'[1].ops) = Helpers_flatten(txs[d].ops)
            /\ ExecSeq(nodes, txs[d].ops).ok
            /\ nodes' = ExecSeq(nodes, txs[d].ops).g]_vars

\* C2: after a cancelled transaction the node storage is what it was when the
\* transaction started and the listeners were notified of none of the
\* operations applied inside it.
C2_CancelLeavesNoTrace ==
  (last.call = "cancelTransaction" /\ last.result = "ok")
    => (nodes = recoveryPoint /\ observed = observedAtStart)

\* C3: a save of a transaction whose log is empty applies nothing to the
\* original: its nodes are unchanged and no listener is notified.
C3_EmptyCommitIsNoOp ==
  [][\A d \in 1..MaxOpen :
       (d <= Len(txs) /\ txs[d].ops = <<>> /\ IsSave(d))
         => (nodes' = nodes /\ observed' = observed /\ lastOp' = lastOp)]_vars

C3_Witness ==
  /\ last.call = "save" /\ last.result = "nothing"
  /\ txs # <<>> /\ \E d \in 1..Len(txs) : txs[d].ops = <<>>
  /\ observed = 0

\* C4: the compound replayed by save is flat (no component is a compound,
\* whatever the nesting in the log) and holds the recorded atomic operations
\* in the order they were recorded.
C4_ReplayedCompoundIsFlat ==
  [][\A d \in 1..MaxOpen :
       (d <= Len(txs) /\ IsSave(d) /\ last'.result = "applied")
         => /\ \A i \in 1..Len(lastOp'[1].ops) : lastOp'[1].ops[i].type # "compound"
            /\ lastOp'[1].ops = Helpers_flatten(txs[d].ops)]_vars

\* C5: starting a transaction on a graph that has an open transaction fails,
\* and at most one transaction is ever open against the graph.
C5_NoNestedTransaction ==
  /\ (last.call = "startTransaction" /\ last.inTx) => last.result = "throw"
  /\ Len(txs) <= 1

\* C6: committing or cancelling when no transaction is open fails with an
\* error reported to the caller.
C6_NotInTransactionFails ==
  (last.call \in {"save", "cancelTransaction", "finishTransaction"} /\ ~last.inTx)
    => last.result = "throw"

Notified(tr, l) == \E k \in 1..Len(tr) : tr[k].ev = "notify" /\ tr[k].l = l

Threw(tr, l) == \E k \in 1..Len(tr) : tr[k].ev = "notify" /\ tr[k].l = l /\ tr[k].threw

\* C7: when a listener throws from onOperationApplied, every registered
\* listener is still invoked for that operation and the operation's change to
\* the node storage stays.
C7_ThrowingListenerIsIsolated ==
  [][\A op \in TxOps, T \in SUBSET Listeners :
       (T # {} /\ data_apply(op, T) /\ last'.result = "applied")
         => /\ nodes' = Exec(nodes, op).g
            /\ \A j \in 1..Len(operationListeners) :
                 Notified(trace', operationListeners[j])]_vars

C7_Witness ==
  /\ Len(operationListeners) = 2
  /\ last.call = "apply" /\ last.result = "applied"
  /\ Threw(trace, operationListeners[1])
  /\ Notified(trace, operationListeners[2])
  /\ ~Threw(trace, operationListeners[2])
  /\ "n1" \in DOMAIN nodes /\ nodes["n1"].content = 1

Pos(tr, l) == CHOOSE k \in 1..Len(tr) : tr[k].ev = "notify" /\ tr[k].l = l

\* C9: of two listeners registered with numeric priorities p < q the one with
\* p is notified first, whatever the order of registration; a listener
\* registered without a priority has priority 10.
C9_AscendingPriorityOrder ==
  /\ \A a, b \in DOMAIN given :
       (given[a] # <<>> /\ given[b] # <<>> /\ given[a][1] < given[b][1]
          /\ Notified(trace, a) /\ Notified(trace, b))
         => Pos(trace, a) < Pos(trace, b)
  /\ \A a \in DOMAIN given : given[a] = <<>> => priority[a] = DefaultPriority

SameNodes(g, h) ==
  /\ DOMAIN g = DOMAIN h
  /\ \A i \in DOMAIN g : g[i].type = h[i].type /\ g[i] = h[i]

Truncated(sel, type) ==
  {id \in filterByNodeAndRange(nodes, sel.start[1], <<sel.start[2], sel.end[2]>>) :
     isExclusive(type, nodes[id].type)}

\* a selection inside one node that is not collapsed
IsRangeSelection(sel) == sel.start[1] = sel.end[1] /\ sel.start[2] < sel.end[2]

\* a step in which annotate acted on a non-collapsed selection inside a node
Annotated ==
  /\ last'.call = "annotate" /\ last'.result = "ok"
  /\ IsRangeSelection(last'.sel)
  /\ annotate(last'.sel, last'.type)

\* C11: annotate truncates an annotation [s1,e1] against the action range
\* [s2,e2]: it is deleted when s1>=s2 and e1<=e2, its range becomes [e2,e1]
\* when s1>=s2 and e1>e2, and [s1,s2] when s1<s2 and e1<=e2; when every
\* truncated annotation is in one of the last two cases and no annotation is
\* created for the selection itself, the graph holds the same annotations
\* as before.
C11_TruncateByCase ==
  [][Annotated =>
       LET s2 == last'.sel.start[2]
           e2 == last'.sel.end[2]
           T  == Truncated(last'.sel, last'.type)
           Partial(id) == (nodes[id].range[1] >= s2 /\ nodes[id].range[2] > e2)
                          \/ (nodes[id].range[1] < s2 /\ nodes[id].range[2] <= e2)
       IN  /\ \A id \in T :
                LET s1 == nodes[id].range[1]
                    e1 == nodes[id].range[2]
                IN  /\ (s1 >= s2 /\ e1 <= e2) => id \notin DOMAIN nodes'
                    /\ (s1 >= s2 /\ e1 > e2) =>
                         id \in DOMAIN nodes' /\ nodes'[id].range = <<e2, e1>>
                    /\ (s1 < s2 /\ e1 <= e2) =>
                         id \in DOMAIN nodes' /\ nodes'[id].range = <<s1, s2>>
           /\ ((\A id \in T : Partial(id)) /\ (\E id \in T : nodes[id].type = last'.type))
                => DOMAIN nodes' = DOMAIN nodes]_vars

\* a strong annotation created as [0,2] had its head truncated to [1,2] by
\* annotating [0,1] as link
C11_Witness ==
  /\ last.call = "annotate" /\ last.result = "ok"
  /\ last.sel = [start |-> <<"n1", 0>>, end |-> <<"n1", 1>>] /\ last.type = "link"
  /\ uuids = 2 /\ observed = 3
  /\ DOMAIN nodes = DOMAIN AnnSeed.nodes \cup {"a1", "a2"}
  /\ nodes["a1"] = [type |-> "strong", path |-> <<"n1", "content">>, range |-> <<1, 2>>]
  /\ nodes["a2"] = [type |-> "link", path |-> <<"n1", "content">>, range |-> <<0, 1>>]

\* the splittable types of the configured behaviour
SplittableTypes == {split[i] : i \in 1..Len(split)}

\* C12: annotate truncates an annotation [s1,e1] against an action range
\* [s2,e2] strictly inside it (s1<s2 and e1>e2): for a splittable type the
\* original gets the range [s1,s2] and exactly one annotation of the same type
\* and path with range [e2,e1] is created for it (one for each, when several
\* annotations with that type, path and end are split); otherwise the
\* original is deleted.
\* When it is the only truncated annotation and the call creates no
\* annotation of its own, nothing else appears or disappears.
C12_TruncateMiddle ==
  [][Annotated =>
       LET s2 == last'.sel.start[2]
           e2 == last'.sel.end[2]
           T  == Truncated(last'.sel, last'.type)
           New == DOMAIN nodes' \ DOMAIN nodes
       IN  \A id \in T :
             LET a  == nodes[id]
                 s1 == a.range[1]
                 e1 == a.range[2]
                 tails == {n \in New : nodes'[n] = [type |-> a.type, path |-> a.path,
                                                     range |-> <<e2, e1>>]}
                 alone == T = {id} /\ last'.type = a.type
             IN  (s1 < s2 /\ e1 > e2) =>
                   IF a.type \in SplittableTypes
                   THEN /\ id \in DOMAIN nodes'
                        /\ nodes'[id] = [type |-> a.type, path |-> a.path,
                                         range |-> <<s1, s2>>]
                        /\ Cardinality(tails) =
                             Cardinality({j \in T : /\ nodes[j].type = a.type
                                                    /\ nodes[j].path = a.path
                                                    /\ nodes[j].range[1] < s2
                                                    /\ nodes[j].range[2] = e1})
                        /\ alone => (New = tails /\ DOMAIN nodes \subseteq DOMAIN nodes')
                   ELSE /\ id \notin DOMAIN nodes'
                        /\ alone => DOMAIN nodes' = DOMAIN nodes \ {id}]_vars

\* the strong annotation [0,3] was split into [0,1] and [2,3] by annotating
\* [1,2] as strong
C12_Witness ==
  /\ last.call = "annotate" /\ last.result = "ok"
  /\ last.sel = [start |-> <<"n1", 1>>, end |-> <<"n1", 2>>] /\ last.type = "strong"
  /\ uuids = 2 /\ observed = 3
  /\ DOMAIN nodes = DOMAIN AnnSeed.nodes \cup {"a1", "a2"}
  /\ nodes["a1"] = [type |-> "strong", path |-> <<"n1", "content">>, range |-> <<0, 1>>]
  /\ nodes["a2"] = [type |-> "strong", path |-> <<"n1", "content">>, range |-> <<2, 3>>]

\* the annotations on ids S of graph g that overlap the query [sStart, sEnd],
\* end <<>> when no end was given
Overlapping(g, S, sStart, end) ==
  {id \in S : g[id].range[2] >= sStart /\ (end # <<>> => g[id].range[1] <= end[1])}

\* C13: a range query on a node returns an annotation [aStart,aEnd] if and
\* only if aEnd >= sStart and (no sEnd was given, or aStart <= sEnd), for every
\* query range of non-negative offsets, offset 0 included.
C13_RangeQueryOverlap ==
  /\ (last.call = "getAnnotations" /\ last.result.range # <<>>) =>
        last.result.found =
          Overlapping(nodes, Index_get(nodes, <<last.result.node>>),
                      last.result.range[1], sEnd(last.result.range))
  /\ (last.call = "Document.getAnnotations" /\ last.result.start # <<>>) =>
        last.result.found =
          Overlapping(nodes, Index_get(nodes, last.result.path),
                      last.result.start[1], last.result.end)

\* a step in which a text update was applied to the document
Updated ==
  /\ last'.call = "update"
  /\ document_update(last'.path[1], last'.diff)

\* the annotations of graph g whose path is P
AnnotationsAt(g, P) == {id \in DOMAIN g : IsAnnotation(g[id]) /\ g[id].path = P}

\* C14: when an update inserting n characters at offset p is applied to the
\* text property at path P, every annotation with path P whose start is after
\* p has both range offsets shifted right by n.
C14_InsertShiftsRange ==
  [][(Updated /\ last'.diff.op = "insert") =>
       \A id \in AnnotationsAt(nodes, last'.path) :
         nodes[id].range[1] > last'.diff.pos =>
           /\ id \in DOMAIN nodes'
           /\ nodes'[id].range = <<nodes[id].range[1] + last'.diff.len,
                                   nodes[id].range[2] + last'.diff.len>>]_vars

\* C15: whenever co-transformation of an annotation against a text update
\* yields a range with start equal to end, the annotation is deleted: the
\* graph does not hold it afterwards (no query can return it) and never holds
\* it with the collapsed range.
C15_CollapsedIsDeleted ==
  [][(Updated /\ withTransformation) =>
       \A id \in AnnotationsAt(nodes, last'.path) :
         LET a == nodes[id]
             r == Range_transform(a.range, last'.diff, expansion(a).left, expansion(a).right)
         IN  r.range[1] = r.range[2] => id \notin DOMAIN nodes']_vars

\* C16: in every state reachable by annotate, truncation, copy followed by
\* paste, and co-transformation steps, every annotation stored in the graph
\* has range[0] < range[1].
C16_NoEmptyRangeStored ==
  \A id \in DOMAIN nodes :
    IsAnnotation(nodes[id]) => nodes[id].range[1] < nodes[id].range[2]

\* the annotations of graph g
Annotations(g) == {id \in DOMAIN g : IsAnnotation(g[id])}

\* C17: after a delete operation on a non-annotation node N has been applied
\* and its listeners have run, the graph holds no annotation whose path[0] is
\* N, and the annotations anchored to other nodes are unchanged.
C17_DeleteNodeDeletesItsAnnotations ==
  [][(last'.call = "delete" /\ document_delete(last'.id) /\ ~IsAnnotation(nodes[last'.id])) =>
       /\ \A id \in Annotations(nodes') : nodes'[id].path[1] # last'.id
       /\ \A id \in Annotations(nodes) :
            nodes[id].path[1] # last'.id =>
              id \in DOMAIN nodes' /\ nodes'[id] = nodes[id]]_vars

\* n1 was deleted while a1 annotated it and a2 annotated n2: a1 is gone with
\* it, a2 is as it was
C17_Witness ==
  /\ last.call = "delete" /\ last.id = "n1"
  /\ uuids = 2 /\ observed = 4
  /\ DOMAIN nodes = (DOMAIN AnnSeed.nodes \ {"n1"}) \cup {"a2"}
  /\ nodes["a2"] = [type |-> "strong", path |-> <<"n2", "content">>, range |-> <<0, 1>>]

\* a step in which the value of a text property was set
WasSet ==
  /\ last'.call = "set"
  /\ document_set(last'.path[1], last'.value)

C19_ExclusiveIffSameGroup ==
  last.call = "isExclusive" =>
    (last.result.value <=>
       /\ last.result.type1 \in DOMAIN groups
       /\ last.result.type2 \in DOMAIN groups
       /\ groups[last.result.type1] = groups[last.result.type2])

\* two annotation types are mutually exclusive: the same type, or two types
\* assigned the same group
MutuallyExclusive(type1, type2) ==
  \/ type1 = type2
  \/ /\ type1 \in DOMAIN groups /\ type2 \in DOMAIN groups
     /\ groups[type1] = groups[type2]

\* C20: starting from a graph without annotations, after any sequence of
\* annotate calls with single-node selections there are never two annotations
\* of mutually exclusive types on the same path whose ranges, taken as
\* half-open intervals, cover the same offset.
C20_ExclusiveNeverOverlap ==
  \A a \in Annotations(nodes), b \in Annotations(nodes) :
    (/\ a # b
     /\ nodes[a].path = nodes[b].path
     /\ MutuallyExclusive(nodes[a].type, nodes[b].type))
    => ~(Max(nodes[a].range[1], nodes[b].range[1])
           < Min(nodes[a].range[2], nodes[b].range[2]))

\* the strong annotation [0,3] was split around the link annotated on [1,2]
C20_Witness ==
  /\ last.call = "annotate" /\ last.result = "ok" /\ last.type = "link"
  /\ last.sel = [start |-> <<"n1", 1>>, end |-> <<"n1", 2>>]
  /\ uuids = 3 /\ observed = 4
  /\ DOMAIN nodes = DOMAIN AnnSeed.nodes \cup {"a1", "a2", "a3"}
  /\ nodes["a1"] = [type |-> "strong", path |-> <<"n1", "content">>, range |-> <<0, 1>>]
  /\ nodes["a2"] = [type |-> "strong", path |-> <<"n1", "content">>, range |-> <<2, 3>>]
  /\ nodes["a3"] = [type |-> "link", path |-> <<"n1", "content">>, range |-> <<1, 2>>]

\* C21: annotate with a non-empty single-node selection [s,e] and type T
\* truncates against [s,e] every overlapping annotation of the node whose
\* type is mutually exclusive with T and leaves every other annotation
\* unchanged; it then creates exactly one annotation of type T with path
\* <<node, "content">> and range [s,e], unless an overlapping annotation had
\* type T, in which case it creates none.
C21_AnnotateRange ==
  [][Annotated =>
       LET node == last'.sel.start[1]
           s2 == last'.sel.start[2]
           e2 == last'.sel.end[2]
           T  == last'.type
           found == filterByNodeAndRange(nodes, node, <<s2, e2>>)
           Excl  == {id \in found : MutuallyExclusive(T, nodes[id].type)}
           toggled == \E id \in found : nodes[id].type = T
           Created == {id \in Annotations(nodes') \ Annotations(nodes) :
                         nodes'[id] = [type |-> T, path |-> <<node, "content">>,
                                       range |-> <<s2, e2>>]}
       IN  /\ \A id \in Annotations(nodes) \ Excl :
                id \in DOMAIN nodes' /\ nodes'[id] = nodes[id]
           /\ \A id \in Excl :
                LET s1 == nodes[id].range[1]
                    e1 == nodes[id].range[2]
                IN  /\ (s1 >= s2 /\ e1 <= e2) => id \notin DOMAIN nodes'
                    /\ (s1 >= s2 /\ e1 > e2) =>
                         id \in DOMAIN nodes' /\ nodes'[id].range = <<e2, e1>>
                    /\ (s1 < s2 /\ (e1 <= e2 \/ nodes[id].type \in SplittableTypes)) =>
                         id \in DOMAIN nodes' /\ nodes'[id].range = <<s1, s2>>
                    /\ (s1 < s2 /\ e1 > e2 /\ nodes[id].type \notin SplittableTypes) =>
                         id \notin DOMAIN nodes'
           /\ IF toggled THEN Created = {} ELSE Cardinality(Created) = 1]_vars

\* a step in which annotate acted on a collapsed selection
AnnotatedCollapsed ==
  /\ last'.call = "annotate" /\ last'.result = "ok"
  /\ last'.sel.start = last'.sel.end
  /\ annotate(last'.sel, last'.type)

\* C22: annotate with a collapsed selection at offset p of a node and type T
\* creates no annotation and deletes exactly the annotations of type T on
\* that node whose range covers p (aStart <= p <= aEnd); every other
\* annotation is unchanged.
C22_CollapsedToggles ==
  [][AnnotatedCollapsed =>
       LET node == last'.sel.start[1]
           p == last'.sel.start[2]
           Covering == {id \in AnnotationsAt(nodes, <<node, "content">>) :
                          /\ nodes[id].type = last'.type
                          /\ nodes[id].range[1] <= p /\ p <= nodes[id].range[2]}
       IN  /\ Annotations(nodes') = Annotations(nodes) \ Covering
           /\ \A id \in Annotations(nodes') : nodes'[id] = nodes[id]]_vars

\* a step in which annotate was called with a selection spanning two nodes
AnnotatedMultiNode ==
  /\ last'.call = "annotate"
  /\ last'.sel.start[1] # last'.sel.end[1]
  /\ annotate(last'.sel, last'.type)

\* C23: annotate with a selection whose start and end lie in different nodes
\* is rejected with an error and the graph is left exactly as it was: no
\* annotation is created, truncated or deleted and no operation is applied.
C23_MultiNodeRejected ==
  [][AnnotatedMultiNode =>
       /\ last'.result = "throw"
       /\ nodes' = nodes
       /\ uuids' = uuids
       /\ observed' = observed]_vars

\* a selection from the end of n1 into n2 was rejected while n1 had a strong
\* annotation ending at the selection's start
C23_Witness ==
  /\ last.call = "annotate" /\ last.result = "throw"
  /\ last.sel = [start |-> <<"n1", MaxChar>>, end |-> <<"n2", 0>>]
  /\ last.type = "strong"
  /\ "a1" \in DOMAIN nodes
  /\ nodes["a1"] = [type |-> "strong", path |-> <<"n1", "content">>,
                    range |-> <<MaxChar - 1, MaxChar>>]

\* a step in which copy acted on a selection inside one node
Copied ==
  /\ last'.call = "copy"
  /\ copy(last'.sel)

\* the annotations of the selection's node that overlap the selection [a,b]
CopyOverlapping(sel) ==
  {id \in AnnotationsAt(nodes, <<sel.start[1], "content">>) :
     nodes[id].range[1] <= sel.end[2] /\ nodes[id].range[2] >= sel.start[2]}

\* the overlapping annotations the selection fully contains
FullyContained(sel) ==
  {id \in CopyOverlapping(sel) :
     sel.start[2] <= nodes[id].range[1] /\ nodes[id].range[2] <= sel.end[2]}

\* what C24 says of one copy step
CopyReturnsAsClaimed ==
       LET sel  == last'.sel
           R    == last'.result
           Full == FullyContained(sel)
           Part == {id \in CopyOverlapping(sel) \ Full :
                      nodes[id].type \in SplittableTypes}
       IN  /\ \A i \in 1..Len(R) :
                /\ R[i].id \notin DOMAIN nodes
                /\ \A j \in 1..Len(R) : R[i].id = R[j].id => i = j
           /\ \E f \in [1..Len(R) -> Full \cup Part] :
                /\ \A id \in Full \cup Part : \E i \in 1..Len(R) : f[i] = id
                /\ \A i, j \in 1..Len(R) : f[i] = f[j] => i = j
                /\ \A i \in 1..Len(R) :
                     /\ R[i].type = nodes[f[i]].type
                     /\ R[i].path = nodes[f[i]].path
                     /\ f[i] \in Full =>
                          R[i].range = <<nodes[f[i]].range[1] - sel.start[2],
                                         nodes[f[i]].range[2] - sel.start[2]>>


\* C24: copy(selection) returns one copy with a fresh id for each annotation
\* overlapping the selection that the selection fully contains, its range
\* rebased by the selection's start offset, and one copy for each partially
\* contained annotation of a splittable type; partially contained
\* annotations of other types are omitted and nothing else is returned.
C24_CopyReturns == [][Copied => CopyReturnsAsClaimed]_vars

\* C25: every fragment copy returns for a partially selected splittable
\* annotation is clipped to the selection [a,b] of the annotation's node:
\* its range is the intersection of the annotation's range with [a,b]
\* rebased by a, so 0 <= range[0] < range[1] <= b - a. It is stated for the
\* annotations that share more than one offset with the selection.
C25_FragmentClipped ==
  [][Copied =>
       LET sel == last'.sel
           R   == last'.result
           a   == sel.start[2]
           b   == sel.end[2]
           Part == {id \in CopyOverlapping(sel) \ FullyContained(sel) :
                      /\ nodes[id].type \in SplittableTypes
                      /\ Max(nodes[id].range[1], a) < Min(nodes[id].range[2], b)}
       IN  \A id \in Part :
             \E i \in 1..Len(R) :
               /\ R[i].type = nodes[id].type
               /\ R[i].range = <<Max(nodes[id].range[1], a) - a,
                                 Min(nodes[id].range[2], b) - a>>
               /\ 0 <= R[i].range[1]
               /\ R[i].range[1] < R[i].range[2]
               /\ R[i].range[2] <= b - a]_vars

\* a step in which paste acted on the annotations copy had returned
Pasted ==
  /\ last.call = "copy" /\ last'.call = "paste"
  /\ paste(last'.newNodeId, last'.offset)

Shown ==
  /\ last'.call = "show"
  /\ show(last'.viewId, last'.nodeIds, last'.target)

\* C27: show(containerId, nodeIds, target) on a container of length l inserts
\* the given ids contiguously and in the given order: at index target when
\* 0 <= target <= l, at the end when target > l or target is -1 or omitted,
\* and at index max(0, l + target + 1) for any other negative target; the ids
\* already in the container keep their relative order and none is removed.
C27_ShowInsertsAtTarget ==
  [][(Shown /\ last'.result = "ok") =>
       LET v    == last'.viewId
           old  == nodes[v].nodes
           list == asList(last'.nodeIds)
           l    == Len(old)
           t    == last'.target
           at   == IF t = <<>> \/ t = <<0 - 1>> THEN l
                   ELSE IF t[1] > l THEN l
                   ELSE IF t[1] >= 0 THEN t[1]
                   ELSE Max(0, l + t[1] + 1)
       IN  /\ isContainer(nodes, v)
           /\ nodes'[v].nodes = SubSeq(old, 1, at) \o list \o SubSeq(old, at + 1, l)
           /\ \A id \in DOMAIN nodes \ {v} : nodes'[id] = nodes[id]]_vars

\* n2 and n1 were shown at target -3 of the container <<n1, n1>>, that is
\* at index 0
C27_Witness ==
  /\ last.call = "show" /\ last.result = "ok"
  /\ last.viewId = "content" /\ last.target = <<0 - 3>>
  /\ last.nodeIds = [isString |-> FALSE, value |-> <<"n2", "n1">>]
  /\ nodes["content"].nodes = <<"n2", "n1", "n1">>

\* a step in which hide acted
Hidden ==
  /\ last'.call = "hide"
  /\ hide(last'.viewId, last'.nodeIds)

\* C28: show and hide called with an id that does not resolve to a
\* container-typed node (an absent id, or the id of a live node of another
\* type) fail with an invalid-container error and leave the graph unchanged.
C28_InvalidContainerFails ==
  [][((Shown \/ Hidden) /\ ~isContainer(nodes, last'.viewId)) =>
       /\ last'.result = "Invalid view id"
       /\ nodes' = nodes
       /\ observed' = observed]_vars

\* C29: show on a container with a list of ids of which any one is not a
\* live node of the graph fails with an invalid-node error and applies
\* nothing: the container's sequence is unchanged and no listener is
\* notified, also when ids earlier in the list are valid.
C29_InvalidNodeAppliesNothing ==
  [][(/\ Shown
      /\ isContainer(nodes, last'.viewId)
      /\ \E i \in 1..Len(asList(last'.nodeIds)) :
           asList(last'.nodeIds)[i] \notin DOMAIN nodes) =>
       /\ last'.result = "Invalid node id"
       /\ nodes' = nodes
       /\ observed' = observed]_vars

\* show of n1 followed by an id that is no node was rejected on the
\* container <<n2>>, which is as it was
C29_Witness ==
  /\ last.call = "show" /\ last.result = "Invalid node id"
  /\ last.viewId = "content"
  /\ last.nodeIds = [isString |-> FALSE, value |-> <<"n1", "zz">>]
  /\ nodes["content"].nodes = <<"n2">>
  /\ observed = 1

\* the applies that have started and not returned at the end of the events tr
RECURSIVE Depth(_)
Depth(tr) ==
  IF tr = <<>> THEN 0
  ELSE Depth(SubSeq(tr, 1, Len(tr) - 1))
       + (IF tr[Len(tr)].ev = "apply" THEN 1
          ELSE IF tr[Len(tr)].ev = "done" THEN 0 - 1 ELSE 0)

\* C30: apply on a graph runs to completion, including the notification of
\* all its listeners, before any other operation on the graph starts: no
\* apply starts while another apply on the graph is still notifying
\* listeners, also when a listener is the Annotator.
C30_ApplyRunsToCompletion ==
  \A k \in 1..Len(trace) :
    trace[k].ev = "apply" => Depth(SubSeq(trace, 1, k - 1)) = 0


\* the sequence s without the entries that are in the set S
RECURSIVE Removed(_, _)
Removed(s, S) ==
  IF s = <<>> THEN <<>>
  ELSE (IF Head(s) \in S THEN <<>> ELSE <<Head(s)>>) \o Removed(Tail(s), S)

\* C31: hide(containerId, nodeIds) on a container without duplicate entries,
\* of any length, removes from its sequence exactly the listed ids that
\* occur in it and keeps every other entry in its relative order; when none
\* of the listed ids occurs in the container it applies no operation and no
\* listener is notified.
C31_HideRemovesListed ==
  [][(/\ Hidden
      /\ isContainer(nodes, last'.viewId)
      /\ \A i, j \in 1..Len(nodes[last'.viewId].nodes) :
           nodes[last'.viewId].nodes[i] = nodes[last'.viewId].nodes[j] => i = j) =>
       LET v == last'.viewId
           old == nodes[v].nodes
           S == {asList(last'.nodeIds)[i] : i \in 1..Len(asList(last'.nodeIds))}
       IN  /\ last'.result = "ok"
           /\ nodes'[v].nodes = Removed(old, S)
           /\ \A id \in DOMAIN nodes \ {v} : nodes'[id] = nodes[id]
           /\ (\A i \in 1..Len(old) : old[i] \notin S) =>
                (nodes' = nodes /\ observed' = observed)]_vars

\* what C32 says of the annotation id (range [s,e]) when n characters are
\* inserted at offset p, one of its boundaries
BoundaryInsertAsClaimed(id, p, n) ==
  LET a == nodes[id]
      s == a.range[1]
      e == a.range[2]
      grown == id \in DOMAIN nodes'
               /\ nodes'[id].range[2] - nodes'[id].range[1] > e - s
  IN  /\ ((p = s /\ ~expansion(a).left) \/ (p = e /\ ~expansion(a).right)) /\ ~grown =>
           /\ id \in DOMAIN nodes'
           /\ nodes'[id].range[2] - nodes'[id].range[1] = e - s
           /\ ~(nodes'[id].range[1] < p + n /\ p < nodes'[id].range[2])
      /\ grown => (p = s /\ expansion(a).left) \/ (p = e /\ expansion(a).right)

\* C32: for an annotation whose type has no expansion policy, or whose policy
\* predicates are false for it, text inserted exactly at its start or end
\* boundary is never included in it and its length is unchanged by the
\* insertion; an annotation grows to include text inserted at its left or
\* right boundary only when the expandLeft or expandRight predicate of its
\* type is true for it.
C32_BoundaryInsertNotIncluded ==
  [][(Updated /\ last'.diff.op = "insert") =>
       \A id \in AnnotationsAt(nodes, last'.path) :
         last'.diff.pos \in {nodes[id].range[1], nodes[id].range[2]} =>
           BoundaryInsertAsClaimed(id, last'.diff.pos, last'.diff.len)]_vars


\* a step in which the transaction saved in the step before is saved again
SavedAgain ==
  /\ last.call = "save" /\ last.inTx /\ last.result = "applied"
  /\ last'.call = "save" /\ last'.d = last.d
  /\ IsSave(last.d)

\* C33: the operations recorded in one transaction are applied to the
\* original graph at most once: a save of a transaction that was already
\* saved applies nothing further to the original and notifies none of its
\* listeners. It is stated for the save that directly follows the first.
C33_SaveAppliesOnce ==
  [][SavedAgain => (nodes' = nodes /\ observed' = observed)]_vars


\* C34: after save, once the original's listeners have run, the original
\* graph holds for every node id the same node (type and property values,
\* every annotation's range included) as the simulation held at the moment
\* of save, also when an Annotator with co-transformation is attached both
\* to the simulation and to the original.
C34_SavedEqualsShadow ==
  [][(session_save /\ last'.result = "applied") => nodes' = txs[1].nodes]_vars

\* C35: every operation listener observes operations in the order in which
\* they were applied to the graph, the operations another listener issues
\* while reacting to an operation included: no listener is notified of such
\* a follow-up operation before it has been notified of the operation that
\* triggered it.
C35_ListenersSeeApplyOrder ==
  \A k \in 1..Len(trace) :
    (trace[k].ev = "notify" /\ trace[k].op # trace[1].op)
      => \E j \in 1..(k - 1) :
           /\ trace[j].ev = "notify"
           /\ trace[j].l = trace[k].l
           /\ trace[j].op = trace[1].op

\* C36: an operation whose application to the simulation is rejected (apply
\* throws) is not recorded in the simulation's operation log, so that a
\* later save replays only operations that were applied to the simulation.
C36_RejectedNotRecorded ==
  [][(last'.call = "apply" /\ last'.inTx /\ last'.result = "throw")
       => (Len(txs') = Len(txs)
           /\ \A d \in 1..Len(txs) : txs'[d].ops = txs[d].ops)]_vars

\* the annotations of type T on the node that the selection [s,e] leaves
\* aside: each ends at or before s or starts at or after e
AbuttingAtMost(g, node, T, s, e) ==
  \A id \in Index_get(g, <<node>>) :
    g[id].type = T => (g[id].range[2] <= s \/ g[id].range[1] >= e)

\* C37: if no annotation of type T on a node shares a character with the
\* non-empty selection [s,e] (each has aEnd <= s or aStart >= e), then
\* annotate(selection, T) creates a new annotation of type T with range
\* [s,e] and leaves the ranges of those annotations unchanged.
C37_AbuttingLeftAlone ==
  [][(Annotated
      /\ AbuttingAtMost(nodes, last'.sel.start[1], last'.type,
                        last'.sel.start[2], last'.sel.end[2]))
       => LET node == last'.sel.start[1]
              T    == last'.type
              s    == last'.sel.start[2]
              e    == last'.sel.end[2]
          IN  /\ \E id \in DOMAIN nodes' \ DOMAIN nodes :
                   nodes'[id] = [type |-> T, path |-> <<node, "content">>,
                                 range |-> <<s, e>>]
              /\ \A id \in Index_get(nodes, <<node>>) :
                   nodes[id].type = T =>
                     id \in DOMAIN nodes' /\ nodes'[id].range = nodes[id].range]_vars


\* C38: after Annotator.dispose() the annotator no longer reacts to
\* operations applied to its document: a later operation on a text node is
\* followed by no operation of the annotator (hence no annotation:changed
\* event) and no annotation is deleted or updated.
C38_DisposedDoesNotReact ==
  [][(disposed /\ last'.call \in {"update", "set", "delete"})
       => /\ observed' = observed + 1
          /\ \A id \in Annotations(nodes) :
               id \in DOMAIN nodes' /\ nodes'[id] = nodes[id]]_vars

\* C39: every operation applied to the graph is delivered to all registered
\* operation listeners whether or not a transaction is open, the operations
\* applied before the first startTransaction and after a finishTransaction
\* or cancelTransaction included.
C39_DeliveredOutsideTransactions ==
  [][(last'.call = "apply" /\ last'.result # "throw")
       => \A j \in 1..Len(operationListeners) :
            Notified(trace', operationListeners[j])]_vars

====
